---------------------------- MODULE Spec2Model ----------------------------
(***************************************************************************)
(* A model of the ARIBA scraping core: the locator resolver                *)
(* (scraper_engine.py, scraper_engine_improved.py), the batch orchestrator *)
(* and the artifact wait (sistema_iterativo_completo.py), the diff         *)
(* analyzer and the run functions that own the browser driver.             *)
(*                                                                         *)
(* Each component has its own specification (SpecResolver, SpecBatch,      *)
(* SpecWait, SpecDiff, SpecRun).  The variables of the components a        *)
(* specification does not exercise stay at their idle values.              *)
(***************************************************************************)
EXTENDS Integers, Sequences, FiniteSets, TLC

VARIABLES
    \* ---- locator resolver ----
    rEngine,      \* "basic" (AribaScraperEngine) | "improved" (ImprovedAribaScraperEngine)
    rCaller,      \* "direct" | "autonomous" | "corporation": who calls the resolver
    rAction,      \* action argument: "click" | "write" | "find"
    rValue,       \* TRUE iff the value argument is a non-empty string
    rLocs,        \* the page seen through the main locator list: control kind per locator
    rVisibleInput, \* the page shows a visible text input that no locator of the list matches
    rOpts,        \* the page seen through the codelco_options list
    rTarget,      \* locator list of the call in progress: "main" | "option"
    rIdx,         \* loop variable i+1 of the for loop over selectors_list
    rTried,       \* locators the call in progress has tried, in order
    rAttempts,    \* result['attempts'] of the call in progress (improved engine)
    rResult,      \* result of the last finished call
    rMain,        \* result of the finished call on the main list (kept for the caller)
    rShots,       \* labels of the calls of take_screenshot, in order
    rStrategy,    \* index of the strategy select_cliente_autonomous is at
    rTiers,       \* strategies invoked so far, in order
    rReports,     \* what each strategy that has returned reported (dropdown opened?)
    rCodelco,     \* results of select_cliente_codelco so far, in order
    rPc,          \* control point of the resolver and its caller
    rOutcome,     \* what the caller returned: "none" | "true" | "false"
    rRaised,      \* TRUE iff an exception reached the caller
    \* ---- batch orchestrator (SistemaUltraRapido) ----
    total_licitaciones,   \* len(licitaciones)
    bIdx,                 \* i + 1 of the item the for loop is at
    consecutive_errors,   \* self.consecutive_errors
    bResults,             \* resultados_procesamiento['licitaciones_procesadas']
    bLog,                 \* per visited item: the item, what the site did, what was observed
    errores,              \* len(resultados_procesamiento['errores'])
    exitosas,             \* self.exitosas
    procesadas,           \* self.procesadas
    reautenticaciones,    \* resultados_procesamiento['reautenticaciones']
    sin_descarga,         \* resultados_procesamiento['licitaciones_sin_descarga']
    bPc,                  \* "idle" | "loop" | "done" | "aborted"
    \* ---- artifact wait ----
    wPolicy,          \* "conservative" (wait_for_download) | "ultra" (wait_download_ultra_fast)
    wTimeoutSeconds,  \* timeout_seconds / self.download_timeout
    wClock,           \* time.time() - start_time, in ticks
    wFiles,           \* size of each file of the watched directories (0: absent)
    wExisting,        \* existing_files / existing_system and existing_local
    wPc,              \* "idle" | "called" | "sleep" | "grace" | "returned"
    wWakeAt,          \* when the sleep in progress ends
    wCandidate,       \* file_path during the grace sleep
    wResult,          \* the returned path, NoFile for None
    wRetAt,           \* the clock at the return
    wCompleteAt,      \* when each complete file was first new and of accepted size
    wEarly,           \* the files created between the export click and the call of the wait
    \* ---- diff analyzer ----
    dA,               \* a snapshot
    dB,               \* another snapshot
    dForward,         \* analyze_element_differences(dA, dB)
    dBackward,        \* analyze_element_differences(dB, dA)
    dPc,              \* "idle" | "ready" | "forward" | "backward" | "done" | "extracted"
    dSuccessful,      \* extract_successful_selectors(): pairs of category and locator
    \* ---- run functions ----
    uFn,              \* the run function called
    uPc,              \* the step it is at
    uDriver,          \* self.driver: "none" | "open" | "quit"
    uQuits,           \* calls of self.driver.quit()
    uExit,            \* "running" | "returned" | "propagated"
    uPending,         \* how control left the try body: "return" | "Exception" | "Interrupt"
    uTrace,           \* the steps taken and how each ended
    uLogin,           \* login_to_ariba: "none" | "ok" | "failed"
    uLoginLog,        \* the login attempts made: how each went and the page it ended on
    uNavigations,     \* calls of self.driver.get(ariba_url)
    uResult,          \* the value the run function returns: "None" | "file"
    \* ---- scheduler ----
    sRunning,         \* self.running
    sThreads,         \* the threads started on scheduler_loop: where each is
    sCurrent,         \* self.scheduler_thread: the last thread started, 0 for None
    sMain,            \* the menu thread: where it is and the task it executes
    sJobs,            \* the jobs registered with the schedule module
    sDue,             \* the registered jobs whose next_run has passed
    \* ---- navigation to one item ----
    nErrors,          \* self.consecutive_errors at the call
    nCredentials,     \* ariba_username and ariba_password are both set
    nPc,              \* where navigate_ultra_fast is
    nPage,            \* the page the driver shows
    nAttempt,         \* attempts of handle_login started
    nDetects,         \* what each call of detect_login_page returned
    nSubmits,         \* submit_button.click() calls
    nHandle,          \* handle_login: "none" | "called" | "True" | "False"
    nResult,          \* navigate_ultra_fast: "none" | "True" | "False"
    \* ---- heuristic strategies ----
    hStrategy,        \* the strategy called: 2, 3 or 4
    hPage,            \* the elements of the page (strategies 2 and 4)
    hClickable,       \* how many displayed and enabled elements strategy 3 collected
    hPc,              \* "idle" | "start" | "try" | "done"
    hScores,          \* the score the strategy gave each element
    hCands,           \* the candidates still to try, best first
    hIdx,             \* elements tried so far
    hEffect,          \* what the last click of strategy 3 left behind
    hResult           \* "none" | "True" | "False"

resolverVars == <<rEngine, rCaller, rAction, rValue, rLocs, rVisibleInput, rOpts, rTarget, rIdx,
                  rTried, rAttempts, rResult, rMain, rShots, rStrategy, rTiers, rReports,
                  rCodelco, rPc, rOutcome, rRaised>>

batchVars == <<total_licitaciones, bIdx, consecutive_errors, bResults, bLog, errores,
               exitosas, procesadas, reautenticaciones, sin_descarga, bPc>>

waitVars == <<wPolicy, wTimeoutSeconds, wClock, wFiles, wExisting, wPc, wWakeAt, wCandidate,
              wResult, wRetAt, wCompleteAt, wEarly>>

diffVars == <<dA, dB, dForward, dBackward, dPc, dSuccessful>>

loginVars == <<uLogin, uLoginLog, uNavigations>>

runVars == <<uFn, uPc, uDriver, uQuits, uExit, uPending, uTrace, loginVars, uResult>>

schedVars == <<sRunning, sThreads, sCurrent, sMain, sJobs, sDue>>

navVars == <<nErrors, nCredentials, nPc, nPage, nAttempt, nDetects, nSubmits, nHandle,
             nResult>>

tierVars == <<hStrategy, hPage, hClickable, hPc, hScores, hCands, hIdx, hEffect, hResult>>

vars == <<resolverVars, batchVars, waitVars, diffVars, runVars, schedVars, navVars, tierVars>>

(***************************************************************************)
(* Bounds of the model.                                                    *)
(***************************************************************************)
MaxLocators == 2        \* longest main locator list explored
MaxOptions == 1         \* longest codelco_options list explored
MaxItems == 4           \* longest batch explored
MaxTimeoutSeconds == 7  \* largest timeout_seconds passed to wait_for_download
MaxButtons == 2         \* most buttons in a snapshot
MaxDivs == 2            \* most clickable divs in a snapshot
MaxThreads == 2         \* most scheduler threads started
MaxElements == 2        \* most elements on a page the heuristic strategies scan
MaxClickable == 31      \* most clickable elements strategy 3 collects

(***************************************************************************)
(* Small helpers.                                                          *)
(***************************************************************************)
SeqsUpTo(S, n) == UNION {[1..m -> S] : m \in 1..n}

Range(s) == {s[i] : i \in 1..Len(s)}

(***************************************************************************)
(* LOCATOR RESOLVER                                                        *)
(*                                                                         *)
(* A locator is identified by its position in selectors_list.  The page is *)
(* seen through the list: for each locator, the kind of control that       *)
(* presence_of_element_located finds for it.                               *)
(***************************************************************************)
ControlKinds == {"none",            \* no element: WebDriverWait raises TimeoutException
                 "hidden",          \* element present, is_displayed() is False
                 "ok_button",       \* visible enabled <button>, a click method completes
                 "ok_input",        \* visible enabled <input>, keeps the typed text as typed
                 "masked_input",    \* visible enabled <input> that reformats the typed text
                 "covered_button",  \* visible enabled <button>, every interaction raises
                 "covered_div",     \* visible enabled <div>, every click method raises
                 "disabled_button"} \* visible <button>, is_enabled() is False

OptionKinds == {"none", "ok_button", "covered_button"}

Present(k) == k # "none"
Displayed(k) == k \notin {"none", "hidden"}
Enabled(k) == k \notin {"none", "disabled_button"}
TagName(k) == CASE k \in {"ok_button", "covered_button", "disabled_button"} -> "button"
                [] k \in {"ok_input", "masked_input"} -> "input"
                [] OTHER -> "div"
\* element.click(), the JavaScript click and the two ActionChains clicks raise
ClickRaises(k) == k \in {"covered_button", "covered_div"}
\* element.submit() and element.send_keys(...) raise
KeysRaise(k) == k \in {"covered_button", "covered_div", "disabled_button"}
\* element.get_attribute("value") == value after clear() and send_keys(value)
ReadBackEqual(k) == k = "ok_input"

\* EC.element_to_be_clickable((By.XPATH, selector)): visible and enabled
Clickable(k) == Displayed(k) /\ Enabled(k)

\* _try_multiple_click_methods: the four click methods, each after the
\* clickability wait; True at the first that does not raise.
TryMultipleClickMethods(k) == Clickable(k) /\ ~ClickRaises(k)

\* _try_multiple_click_methods_improved: the same four, then submit (only
\* dispatched to an input or a button), space and enter (only to a button);
\* a lambda that evaluates to None does not raise and so counts as done.
TryMultipleClickMethodsImproved(k) ==
    /\ Clickable(k)
    /\ \/ ~ClickRaises(k)
       \/ IF TagName(k) \in {"input", "button"} THEN ~KeysRaise(k) ELSE TRUE
       \/ IF TagName(k) = "button" THEN ~KeysRaise(k) ELSE TRUE

\* some method of the list of _try_multiple_click_methods_improved sends an
\* activation to the element and completes: one of the four clicks, or
\* submit / space / enter where the tag test of the lambda lets it through
DispatchesActivation(k) ==
    /\ Clickable(k)
    /\ \/ ~ClickRaises(k)
       \/ TagName(k) \in {"input", "button"} /\ ~KeysRaise(k)

ClickMethods(engine, k) ==
    IF engine = "improved" THEN TryMultipleClickMethodsImproved(k)
                           ELSE TryMultipleClickMethods(k)

\* selectors_list of the call in progress
SelectorsList == IF rTarget = "main" THEN rLocs ELSE rOpts

\* the action argument of the call in progress: the callers of the option
\* list always pass "click"
CallAction == IF rTarget = "main" THEN rAction ELSE "click"

NoResult == [success |-> FALSE, selector_used |-> 0, error |-> FALSE, attempts |-> <<>>]

IterationOutcomeWithoutReadBack(engine, action, value, k) ==
    CASE ~Present(k) -> "timeout"
      [] ~Displayed(k) -> "not_visible"
      [] action = "click" ->
            IF ClickMethods(engine, k) THEN "success" ELSE "no_effect"
      [] action = "write" /\ value ->
            IF KeysRaise(k) THEN "exception" ELSE "success"
      [] action = "find" -> "success"
      [] OTHER -> "no_effect"

\* What one iteration of the for loop decides for control kind k:
\*   "success"      the action is done and verified: return
\*   "timeout"      TimeoutException from the wait for the element
\*   "not_visible"  is_displayed() is False: continue
\*   "exception"    another exception, caught by except Exception
\*   "no_effect"    no branch returned: fall to the end of the loop body
IterationOutcome(engine, action, value, k) ==
    CASE ~Present(k) -> "timeout"
      [] ~Displayed(k) -> "not_visible"
      [] action = "click" ->
            IF ClickMethods(engine, k) THEN "success" ELSE "no_effect"
      [] action = "write" /\ value ->
            IF KeysRaise(k) THEN "exception"
            ELSE IF ReadBackEqual(k) THEN "success" ELSE "no_effect"
      [] action = "find" -> "success"
      [] OTHER -> "no_effect"

AttemptError(outcome) ==
    CASE outcome = "timeout" -> "Timeout"
      [] outcome = "not_visible" -> "Elemento presente pero no visible"
      [] outcome = "exception" -> "exception"
      [] OTHER -> "none"

\* Attempt with attempt['success'] never set
AttemptNeverMarked(i, outcome) ==
    [selector |-> i, index |-> i, success |-> FALSE, error |-> AttemptError(outcome)]

Attempt(i, outcome) ==
    [selector |-> i, index |-> i, success |-> (outcome = "success"),
     error |-> AttemptError(outcome)]

\* the except clauses of the loop body: TimeoutException, then Exception
Handled(outcome) == outcome \in {"timeout", "exception"}

Raises(outcome) == outcome \in {"timeout", "exception"}

\* AttemptsAfter with a `continue` in the except clauses, ahead of the append
AttemptsAfterDroppingErrors(engine, attempts, i, outcome) ==
    IF engine = "improved" /\ ~Raises(outcome)
    THEN Append(attempts, Attempt(i, outcome)) ELSE attempts

\* result['attempts'] after one more iteration; the basic engine keeps no list
AttemptsAfter(engine, attempts, i, outcome) ==
    IF engine = "improved" THEN Append(attempts, Attempt(i, outcome)) ELSE attempts

\* the screenshots an iteration takes: the "after ... success" one, which the
\* find branch does not take
ShotsAfterIteration(shots, action, outcome) ==
    IF outcome = "success" /\ action # "find"
    THEN Append(shots, "after_success") ELSE shots

otherThanResolver ==
    <<batchVars, waitVars, diffVars, runVars, schedVars, navVars, tierVars>>

\* entry of robust_element_interaction(_improved): result initialised,
\* screenshot ANTES
CallStart ==
    /\ rPc = "call"
    /\ rIdx' = 1
    /\ rTried' = <<>>
    /\ rAttempts' = <<>>
    /\ rResult' = NoResult
    /\ rShots' = Append(rShots, "before")
    /\ rPc' = "loop"
    /\ UNCHANGED <<rEngine, rCaller, rAction, rValue, rLocs, rVisibleInput, rOpts, rTarget, rMain,
                   rStrategy, rTiers, rReports, rCodelco, rOutcome, rRaised>>
    /\ UNCHANGED otherThanResolver

\* AfterIteration without the `return result` of the success branches
AfterIterationNoReturn(outcome, i) == [pc |-> "loop", idx |-> i + 1]

\* where the loop goes after an iteration: `return result` on success, the
\* next selector otherwise
AfterIteration(outcome, i) ==
    IF outcome = "success" THEN [pc |-> "ret", idx |-> i]
                           ELSE [pc |-> "loop", idx |-> i + 1]

\* one iteration of `for i, selector in enumerate(selectors_list)`
TryLocator ==
    /\ rPc = "loop"
    /\ rIdx <= Len(SelectorsList)
    /\ LET outcome == IterationOutcome(rEngine, CallAction, rValue, SelectorsList[rIdx])
           attempts == AttemptsAfter(rEngine, rAttempts, rIdx, outcome)
       IN /\ rTried' = Append(rTried, rIdx)
          /\ IF Raises(outcome) /\ ~Handled(outcome)
             THEN /\ rRaised' = TRUE
                  /\ rPc' = "raised"
                  /\ UNCHANGED <<rAttempts, rShots, rResult, rIdx>>
             ELSE /\ rRaised' = rRaised
                  /\ rAttempts' = attempts
                  /\ rShots' = ShotsAfterIteration(rShots, CallAction, outcome)
                  /\ rPc' = AfterIteration(outcome, rIdx).pc
                  /\ rIdx' = AfterIteration(outcome, rIdx).idx
                  /\ rResult' =
                        IF outcome = "success"
                        THEN [success |-> TRUE,
                              selector_used |-> IF rEngine = "improved" THEN rIdx ELSE 0,
                              error |-> FALSE,
                              attempts |-> attempts]
                        ELSE rResult
    /\ UNCHANGED <<rEngine, rCaller, rAction, rValue, rLocs, rVisibleInput, rOpts, rTarget, rMain,
                   rStrategy, rTiers, rReports, rCodelco, rOutcome>>
    /\ UNCHANGED otherThanResolver

\* after the loop: every selector failed
CallExhausted ==
    /\ rPc = "loop"
    /\ rIdx > Len(SelectorsList)
    /\ rResult' = [success |-> rResult.success, selector_used |-> rResult.selector_used,
                   error |-> (rEngine = "improved"), attempts |-> rAttempts]
    /\ rShots' = Append(rShots, "after_failed")
    /\ rPc' = "ret"
    /\ UNCHANGED <<rEngine, rCaller, rAction, rValue, rLocs, rVisibleInput, rOpts, rTarget, rIdx,
                   rTried, rAttempts, rMain, rStrategy, rTiers, rReports, rCodelco, rOutcome,
                   rRaised>>
    /\ UNCHANGED otherThanResolver

NextStrategySkippingSearch(k) ==
    IF k < 4
    THEN /\ rStrategy' = IF k = 1 THEN 3 ELSE k + 1
         /\ rPc' = "strat"
         /\ rOutcome' = rOutcome
    ELSE /\ rStrategy' = k
         /\ rPc' = "done"
         /\ rOutcome' = "false"

\* the strategy after strategy k of self.dropdown_strategies, or the end of
\* select_cliente_autonomous (return False) after the fourth
NextStrategy(k) ==
    IF k < 4
    THEN /\ rStrategy' = k + 1
         /\ rPc' = "strat"
         /\ rOutcome' = rOutcome
    ELSE /\ rStrategy' = k
         /\ rPc' = "done"
         /\ rOutcome' = "false"

\* a bare call returns to its caller
ReturnDirect ==
    /\ rPc = "ret"
    /\ rCaller = "direct"
    /\ rMain' = rResult
    /\ rOutcome' = IF rResult.success THEN "true" ELSE "false"
    /\ rPc' = "done"
    /\ UNCHANGED <<rEngine, rCaller, rAction, rValue, rLocs, rVisibleInput, rOpts, rTarget, rIdx,
                   rTried, rAttempts, rResult, rShots, rStrategy, rTiers, rReports, rCodelco,
                   rRaised>>
    /\ UNCHANGED otherThanResolver

\* select_corporation_improved: open the dropdown, then pick the option; no
\* other tier
ReturnCorporation ==
    /\ rPc = "ret"
    /\ rCaller = "corporation"
    /\ IF rTarget = "main"
       THEN /\ rMain' = rResult
            /\ IF rResult.success
               THEN /\ rTarget' = "option"
                    /\ rPc' = "call"
                    /\ UNCHANGED <<rOutcome, rCodelco>>
               ELSE /\ rPc' = "done"
                    /\ rOutcome' = "false"
                    /\ UNCHANGED <<rTarget, rCodelco>>
       ELSE /\ rCodelco' = Append(rCodelco, rResult.success)
            /\ rOutcome' = IF rResult.success THEN "true" ELSE "false"
            /\ rPc' = "done"
            /\ UNCHANGED <<rMain, rTarget>>
    /\ UNCHANGED <<rEngine, rCaller, rAction, rValue, rLocs, rVisibleInput, rOpts, rIdx, rTried,
                   rAttempts, rResult, rShots, rStrategy, rTiers, rReports, rRaised>>
    /\ UNCHANGED otherThanResolver

\* what strategy k (2, 3 or 4) can report: _strategy_intelligent_search
\* waits for the XPath "candidato_N" to be clickable before every click, so
\* it clicks nothing and returns False
StrategyReports(k) == IF k = 2 THEN {FALSE} ELSE BOOLEAN

\* select_cliente_autonomous, at the start of a loop iteration: strategy 1
\* is the resolver on the known selectors; strategies 2 to 4 search the page
\* themselves and report whether the dropdown opened
RunStrategy ==
    /\ rPc = "strat"
    /\ rCaller = "autonomous"
    /\ rTiers' = Append(rTiers, rStrategy)
    /\ IF rStrategy = 1
       THEN /\ rTarget' = "main"
            /\ rPc' = "call"
            /\ UNCHANGED <<rShots, rStrategy, rOutcome, rReports>>
       ELSE \E opened \in StrategyReports(rStrategy) :
               /\ rReports' = Append(rReports, opened)
               /\ IF opened
                  THEN /\ rShots' = Append(rShots, "dropdown_opened")
                       /\ rTarget' = "option"
                       /\ rPc' = "call"
                       /\ UNCHANGED <<rStrategy, rOutcome>>
                  ELSE /\ NextStrategy(rStrategy)
                       /\ UNCHANGED <<rShots, rTarget>>
    /\ UNCHANGED <<rEngine, rCaller, rAction, rValue, rLocs, rVisibleInput, rOpts, rIdx,
                   rTried, rAttempts, rResult, rMain, rCodelco, rRaised>>
    /\ UNCHANGED otherThanResolver

\* select_cliente_autonomous after a resolver call returned: after strategy
\* 1, or inside select_cliente_codelco (known options, then the JavaScript
\* search for the option)
ReturnAutonomous ==
    /\ rPc = "ret"
    /\ rCaller = "autonomous"
    /\ IF rTarget = "main"
       THEN /\ rMain' = rResult
            /\ rCodelco' = rCodelco
            /\ rReports' = Append(rReports, rResult.success)
            /\ IF rResult.success
               THEN /\ rShots' = Append(rShots, "dropdown_opened")
                    /\ rTarget' = "option"
                    /\ rPc' = "call"
                    /\ UNCHANGED <<rStrategy, rOutcome>>
               ELSE /\ NextStrategy(rStrategy)
                    /\ UNCHANGED <<rShots, rTarget>>
       ELSE /\ UNCHANGED <<rMain, rShots, rTarget, rReports>>
            /\ \E js \in BOOLEAN :
                  LET selected == rResult.success \/ js
                  IN /\ rCodelco' = Append(rCodelco, selected)
                     /\ IF selected
                        THEN /\ rOutcome' = "true"
                             /\ rPc' = "done"
                             /\ rStrategy' = rStrategy
                        ELSE NextStrategy(rStrategy)
    /\ UNCHANGED <<rEngine, rCaller, rAction, rValue, rLocs, rVisibleInput, rOpts, rIdx, rTried,
                   rAttempts, rResult, rTiers, rRaised>>
    /\ UNCHANGED otherThanResolver

(***************************************************************************)
(* BATCH ORCHESTRATOR (sistema_iterativo_completo.py)                      *)
(***************************************************************************)
skip_threshold == 3

\* self.scoring_system['keywords'] (the fallback table) restricted to the
\* keywords the explored items and files carry
Keywords == {"ZAPATA", "CADENA", "RODILLOS", "PERNO"}

KeywordScore(kw) == IF kw = "PERNO" THEN 15 ELSE 30

RECURSIVE SumScores(_)
SumScores(kws) ==
    IF kws = {} THEN 0
    ELSE LET kw == CHOOSE x \in kws : TRUE
         IN KeywordScore(kw) + SumScores(kws \ {kw})

\* int(total_score * 0.7) in IEEE double arithmetic: the product falls just
\* below the integer for 90, 170 and 180 (totals stay below 200 here)
Penalized(total) ==
    IF total \in {90, 170, 180} THEN ((7 * total) \div 10) - 1
                                ELSE (7 * total) \div 10

\* classify_score_ultra_fast with the default thresholds
ClassifyScore(score) ==
    IF score >= 100 THEN "ORO"
    ELSE IF score >= 60 THEN "PLATA"
    ELSE IF score >= 30 THEN "BRONCE"
    ELSE "DESCARTADO"

AnalyzeBasicContentUnpenalized(titulo, link) ==
    LET found == (titulo \cup link) \cap Keywords
        score == SumScores(found)
    IN [keywords_found |-> found, score |-> score,
        classification |-> ClassifyScore(score), method |-> "BASIC_TITLE_ANALYSIS"]

\* analyze_basic_content(titulo, link, licitacion_id): the keywords found in
\* the upper-cased title and link, and the penalised score
AnalyzeBasicContent(titulo, link) ==
    LET found == (titulo \cup link) \cap Keywords
        score == Penalized(SumScores(found))
    IN [keywords_found |-> found, score |-> score,
        classification |-> ClassifyScore(score), method |-> "BASIC_TITLE_ANALYSIS"]

\* analyze_excel_ultra_fast(excel_path, licitacion_id): the keywords found in
\* the first rows of the file
AnalyzeExcelUltraFast(content) ==
    LET found == content \cap Keywords
        score == SumScores(found)
    IN [keywords_found |-> found, score |-> score,
        classification |-> ClassifyScore(score), method |-> "ULTRA_FAST_EXCEL"]

\* A work item: whether it has a link, and the keywords its title and its
\* link contain.
ItemKinds ==
    {[link |-> FALSE, titulo |-> {}, linkKw |-> {}],
     [link |-> TRUE, titulo |-> {}, linkKw |-> {}],
     [link |-> TRUE, titulo |-> {"ZAPATA", "CADENA"}, linkKw |-> {"RODILLOS"}]}

\* What the site and the browser do while one item is processed:
\*   load     "ok" | "timeout"        driver.get(link)
\*   login    "none" | "ok" | "fail"  detect_login_page / handle_login
\*   clicked  the download button was found and clicked
\*   file     "none" | "xls"          what wait_download_ultra_fast returns
\*   raises   a step after the navigation raises an exception
SiteBehaviours ==
    {[load |-> "timeout", login |-> "none", clicked |-> FALSE, file |-> "none", raises |-> FALSE],
     [load |-> "ok", login |-> "fail", clicked |-> FALSE, file |-> "none", raises |-> FALSE],
     [load |-> "ok", login |-> "none", clicked |-> FALSE, file |-> "none", raises |-> FALSE],
     [load |-> "ok", login |-> "ok", clicked |-> TRUE, file |-> "none", raises |-> FALSE],
     [load |-> "ok", login |-> "none", clicked |-> TRUE, file |-> "xls", raises |-> FALSE],
     [load |-> "ok", login |-> "none", clicked |-> TRUE, file |-> "none", raises |-> TRUE]}

\* The site is not consulted for an item without a link: such an item is
\* paired with one behaviour only.
Unvisited == [load |-> "timeout", login |-> "none", clicked |-> FALSE, file |-> "none",
              raises |-> FALSE]

ItemRuns ==
    {run \in ItemKinds \X SiteBehaviours : run[1].link \/ run[2] = Unvisited}

\* the keywords in the rows of the exported file
FileContent == {"ZAPATA", "PERNO"}

NavigateUltraFastNeverSkips(errors, site) ==
    IF site.load # "ok"
    THEN [ok |-> FALSE, loaded |-> TRUE, reauth |-> FALSE]
    ELSE IF site.login = "none"
    THEN [ok |-> TRUE, loaded |-> TRUE, reauth |-> FALSE]
    ELSE [ok |-> site.login = "ok", loaded |-> TRUE, reauth |-> site.login = "ok"]

NavigateUltraFastLate(errors, site) ==
    IF errors > skip_threshold
    THEN [ok |-> FALSE, loaded |-> FALSE, reauth |-> FALSE]
    ELSE IF site.load # "ok"
    THEN [ok |-> FALSE, loaded |-> TRUE, reauth |-> FALSE]
    ELSE IF site.login = "none"
    THEN [ok |-> TRUE, loaded |-> TRUE, reauth |-> FALSE]
    ELSE [ok |-> site.login = "ok", loaded |-> TRUE, reauth |-> site.login = "ok"]

\* navigate_ultra_fast(link): whether it returned True, whether driver.get
\* was called, whether a login was done
NavigateUltraFast(errors, site) ==
    IF errors >= skip_threshold
    THEN [ok |-> FALSE, loaded |-> FALSE, reauth |-> FALSE]
    ELSE IF site.load # "ok"
    THEN [ok |-> FALSE, loaded |-> TRUE, reauth |-> FALSE]
    ELSE IF site.login = "none"
    THEN [ok |-> TRUE, loaded |-> TRUE, reauth |-> FALSE]
    ELSE [ok |-> site.login = "ok", loaded |-> TRUE, reauth |-> site.login = "ok"]

\* download_ultra_fast(): the file, or "none" when the button is not found
\* or the wait times out
DownloadUltraFast(site) == IF site.clicked THEN site.file ELSE "none"

Resultado(item, index) ==
    [index |-> index, titulo |-> item.titulo, link |-> item.link, linkKw |-> item.linkKw,
     success |-> FALSE, error |-> "none", score |-> 0, classification |-> "none",
     keywords_found |-> {}, archivo_descargado |-> FALSE,
     modo_procesamiento |-> "SIN_ARCHIVO"]

CaughtInItemNever(raises) == ~raises

\* `except Exception` around the body of process_single_licitacion_ultra_fast
CaughtInItem(raises) == TRUE

\* process_single_licitacion_ultra_fast(licitacion_data, index): the result,
\* the counter afterwards, and what happened on the way
ProcessSingle(item, index, errors, site) ==
    LET r0 == Resultado(item, index)
        nav == NavigateUltraFast(errors, site)
        file == DownloadUltraFast(site)
        an == IF file # "none" THEN AnalyzeExcelUltraFast(FileContent)
                               ELSE AnalyzeBasicContent(item.titulo, item.linkKw)
    IN IF ~item.link
       THEN [resultado |-> [r0 EXCEPT !.error = "No link valido"], errors |-> errors,
             loaded |-> FALSE, reauth |-> FALSE, sin |-> FALSE, escaped |-> FALSE]
       ELSE IF ~nav.ok
       THEN [resultado |-> [r0 EXCEPT !.error = "No se pudo navegar"],
             errors |-> errors + 1, loaded |-> nav.loaded, reauth |-> FALSE,
             sin |-> FALSE, escaped |-> FALSE]
       ELSE IF site.raises
       THEN [resultado |-> [r0 EXCEPT !.error = "exception"], errors |-> errors + 1,
             loaded |-> TRUE, reauth |-> nav.reauth, sin |-> FALSE,
             escaped |-> ~CaughtInItem(site.raises)]
       ELSE [resultado |-> [r0 EXCEPT !.success = TRUE,
                                     !.score = an.score,
                                     !.classification = an.classification,
                                     !.keywords_found = an.keywords_found,
                                     !.archivo_descargado = (file # "none"),
                                     !.modo_procesamiento =
                                         IF file # "none" THEN "CON_ARCHIVO"
                                                          ELSE "SIN_ARCHIVO"],
             errors |-> 0, loaded |-> TRUE, reauth |-> nav.reauth,
             sin |-> (file = "none"), escaped |-> FALSE]

otherThanBatch ==
    <<resolverVars, waitVars, diffVars, runVars, schedVars, navVars, tierVars>>

\* one iteration of `for i, licitacion in enumerate(licitaciones)` in
\* run_ultra_fast_processing; an exception that leaves the loop body ends
\* the run in its except clause
ProcessItem ==
    /\ bPc = "loop"
    /\ bIdx <= total_licitaciones
    /\ \E run \in ItemRuns :
          LET item == run[1]
              site == run[2]
              p == ProcessSingle(item, bIdx, consecutive_errors, site)
          IN /\ bLog' = Append(bLog, [item |-> item, site |-> site,
                                      before |-> consecutive_errors,
                                      loaded |-> p.loaded])
             /\ consecutive_errors' = p.errors
             /\ reautenticaciones' = reautenticaciones + (IF p.reauth THEN 1 ELSE 0)
             /\ IF p.escaped
                THEN /\ bPc' = "aborted"
                     /\ UNCHANGED <<bIdx, bResults, errores, exitosas, procesadas,
                                    sin_descarga>>
                ELSE /\ bResults' = Append(bResults, p.resultado)
                     /\ sin_descarga' = IF p.sin THEN Append(sin_descarga, bIdx)
                                                 ELSE sin_descarga
                     /\ exitosas' = exitosas + (IF p.resultado.success THEN 1 ELSE 0)
                     /\ errores' = errores + (IF p.resultado.success THEN 0 ELSE 1)
                     /\ procesadas' = procesadas + 1
                     /\ bIdx' = bIdx + 1
                     /\ bPc' = "loop"
    /\ UNCHANGED total_licitaciones
    /\ UNCHANGED otherThanBatch

\* after the loop: checkpoint and history saved, report shown, return True
FinishBatch ==
    /\ bPc = "loop"
    /\ bIdx > total_licitaciones
    /\ bPc' = "done"
    /\ UNCHANGED <<total_licitaciones, bIdx, consecutive_errors, bResults, bLog, errores,
                   exitosas, procesadas, reautenticaciones, sin_descarga>>
    /\ UNCHANGED otherThanBatch

BatchIdle ==
    /\ total_licitaciones = 0 /\ bIdx = 1 /\ consecutive_errors = 0
    /\ bResults = <<>> /\ bLog = <<>> /\ errores = 0 /\ exitosas = 0 /\ procesadas = 0
    /\ reautenticaciones = 0 /\ sin_descarga = <<>> /\ bPc = "idle"

\* the state when the loop of run_ultra_fast_processing starts
BatchInit ==
    /\ total_licitaciones \in 1..MaxItems
    /\ bIdx = 1 /\ consecutive_errors = 0
    /\ bResults = <<>> /\ bLog = <<>> /\ errores = 0 /\ exitosas = 0 /\ procesadas = 0
    /\ reautenticaciones = 0 /\ sin_descarga = <<>> /\ bPc = "loop"


(***************************************************************************)
(* ARTIFACT WAIT (wait_for_download, wait_download_ultra_fast)             *)
(*                                                                         *)
(* Time is counted in ticks of half a second since the call.  time.sleep   *)
(* advances the clock by its argument; every other statement is            *)
(* instantaneous.                                                          *)
(***************************************************************************)
download_timeout == 10

Ticks(seconds) == 2 * seconds

Never == 0 - 1

NoFile == [dir |-> "none", name |-> <<>>]

\* seconds slept between two scans: time.sleep(3) and
\* time.sleep(self.download_check_interval), which is half a second
PollInterval(policy) == IF policy = "conservative" THEN Ticks(3) ELSE 1

\* time.sleep(2) before wait_for_download returns the file
GraceInterval(policy) == IF policy = "conservative" THEN Ticks(2) ELSE 0

WaitTimeout(policy, timeout_seconds) ==
    IF policy = "conservative" THEN Ticks(timeout_seconds) ELSE Ticks(download_timeout)

\* str.lower() on the parts of the explored file names
Lower(part) ==
    CASE part = ".PART" -> ".part"
      [] part = ".CRDOWNLOAD" -> ".crdownload"
      [] part = "DATA" -> "data"
      [] OTHER -> part

\* Path.suffix: the last extension of the name
Suffix(name) == name[Len(name)]

\* any(ext in file_path.suffix.lower() for ext in ['.part', '.tmp', '.crdownload'])
HasInProgressMarker(name) == Lower(Suffix(name)) \in {".part", ".tmp", ".crdownload"}

\* the size tests: st_size > 1000 in wait_for_download, `size < 1000`
\* rejected in is_ariba_file_ultra_fast
SizeOk(policy, size) ==
    IF policy = "conservative" THEN size > 1000 ELSE ~(size < 1000)

\* is_ariba_file_ultra_fast(file_path) for a file of `size` bytes (0: the
\* file does not exist)
IsAribaFileUltraFast(name, size) ==
    /\ size # 0
    /\ SizeOk("ultra", size)
    /\ \E i \in 1..Len(name) : Lower(name[i]) \in {"data", ".xls", "600103"}

\* the test a new file passes in the loop of either wait
Accepts(policy, name, size) ==
    IF policy = "conservative"
    THEN ~HasInProgressMarker(name) /\ SizeOk(policy, size)
    ELSE IsAribaFileUltraFast(name, size)

\* The explored files: an export and its partial download in ~/Downloads,
\* a report and its partial download in data/downloads.
ExportFile == [dir |-> "system", name |-> <<"DATA", "_export", ".xls">>]
ExportPart == [dir |-> "system", name |-> <<"DATA", "_export", ".xls", ".PART">>]
ReportFile == [dir |-> "local", name |-> <<"report", ".csv">>]
ReportPart == [dir |-> "local", name |-> <<"report", ".csv", ".CRDOWNLOAD">>]

MovedToLocal(path) == [dir |-> "local", name |-> path.name]

Sources == {ExportFile, ExportPart, ReportFile, ReportPart}
Paths == Sources \cup {MovedToLocal(ExportFile), MovedToLocal(ExportPart)}
Sizes == {999, 1000, 1001}

CompleteOf(path) ==
    IF path = ExportPart THEN ExportFile
    ELSE IF path = ReportPart THEN ReportFile
    ELSE path

\* wait_for_download globs data/downloads; wait_download_ultra_fast globs
\* ~/Downloads and data/downloads
Watched(policy) ==
    IF policy = "conservative" THEN {p \in Paths : p.dir = "local"} ELSE Paths

GlobLocalOnly(policy, files) == {p \in Paths : p.dir = "local" /\ files[p] # 0}

\* set(downloads_dir.glob("*"))
Glob(policy, files) == {p \in Watched(policy) : files[p] # 0}

\* while time.time() - start_time < timeout
LoopContinues(elapsed, timeout) == elapsed < timeout

otherThanWait ==
    <<resolverVars, batchVars, diffVars, runVars, schedVars, navVars, tierVars>>

\* the first time each file without a marker is new and has an accepted size
CompleteAtAfter(files) ==
    [p \in DOMAIN wCompleteAt |->
        IF /\ wCompleteAt[p] = Never
           /\ p \notin wExisting
           /\ files[p] # 0
           /\ SizeOk(wPolicy, files[p])
        THEN wClock
        ELSE wCompleteAt[p]]

\* the wait is called: the existing files are recorded, the loop is entered
\* and the first sleep begins
StartWait ==
    /\ wPc = "called"
    /\ wExisting' = Glob(wPolicy, wFiles)
    /\ wPc' = IF LoopContinues(wClock, WaitTimeout(wPolicy, wTimeoutSeconds))
              THEN "sleep" ELSE "returned"
    /\ wWakeAt' = wClock + PollInterval(wPolicy)
    /\ UNCHANGED <<wPolicy, wTimeoutSeconds, wClock, wFiles, wCandidate, wResult, wRetAt,
                   wCompleteAt, wEarly>>
    /\ UNCHANGED otherThanWait

\* half a second passes during a sleep
Tick ==
    /\ wPc \in {"sleep", "grace"}
    /\ wClock < wWakeAt
    /\ wClock' = wClock + 1
    /\ UNCHANGED <<wPolicy, wTimeoutSeconds, wFiles, wExisting, wPc, wWakeAt, wCandidate,
                   wResult, wRetAt, wCompleteAt, wEarly>>
    /\ UNCHANGED otherThanWait

\* the sleep ends: the directories are scanned; an accepted new file ends the
\* loop (the sets are iterated in no particular order), otherwise the loop
\* condition decides between another sleep and the timeout
Scan ==
    /\ wPc = "sleep"
    /\ wClock = wWakeAt
    /\ LET new == Glob(wPolicy, wFiles) \ wExisting
           accepted == {p \in new : Accepts(wPolicy, p.name, wFiles[p])}
       IN IF accepted # {}
          THEN \E p \in accepted :
                 IF wPolicy = "conservative"
                 THEN /\ wPc' = "grace"
                      /\ wCandidate' = p
                      /\ wWakeAt' = wClock + GraceInterval(wPolicy)
                      /\ UNCHANGED <<wFiles, wResult, wRetAt>>
                 ELSE /\ wPc' = "returned"
                      /\ wRetAt' = wClock
                      /\ UNCHANGED <<wCandidate, wWakeAt>>
                      /\ \E renamed \in BOOLEAN :
                           IF p.dir = "system" /\ renamed
                           THEN /\ wFiles' = [wFiles EXCEPT ![p] = 0,
                                                          ![MovedToLocal(p)] = wFiles[p]]
                                /\ wResult' = MovedToLocal(p)
                           ELSE /\ wFiles' = wFiles
                                /\ wResult' = p
          ELSE /\ IF LoopContinues(wClock, WaitTimeout(wPolicy, wTimeoutSeconds))
                  THEN /\ wPc' = "sleep"
                       /\ wWakeAt' = wClock + PollInterval(wPolicy)
                       /\ UNCHANGED <<wResult, wRetAt>>
                  ELSE /\ wPc' = "returned"
                       /\ wResult' = NoFile
                       /\ wRetAt' = wClock
                       /\ UNCHANGED wWakeAt
               /\ UNCHANGED <<wFiles, wCandidate>>
    /\ UNCHANGED <<wPolicy, wTimeoutSeconds, wClock, wExisting, wCompleteAt, wEarly>>
    /\ UNCHANGED otherThanWait

\* the grace sleep of wait_for_download ends: the file is returned
GraceDone ==
    /\ wPc = "grace"
    /\ wClock = wWakeAt
    /\ wPc' = "returned"
    /\ wResult' = wCandidate
    /\ wRetAt' = wClock
    /\ UNCHANGED <<wPolicy, wTimeoutSeconds, wClock, wFiles, wExisting, wWakeAt, wCandidate,
                   wCompleteAt, wEarly>>
    /\ UNCHANGED otherThanWait

\* the browser creates a file in a watched directory, after the export click:
\* before the wait is called or during it
FileAppears ==
    /\ wPc \in {"called", "sleep", "grace"}
    /\ \E p \in Sources \cap Watched(wPolicy), size \in Sizes :
          /\ wFiles[p] = 0
          /\ wFiles[CompleteOf(p)] = 0
          /\ wFiles' = [wFiles EXCEPT ![p] = size]
          /\ wEarly' = IF wPc = "called" THEN wEarly \cup {p} ELSE wEarly
    /\ wCompleteAt' = IF wPc = "called" THEN wCompleteAt ELSE CompleteAtAfter(wFiles')
    /\ UNCHANGED <<wPolicy, wTimeoutSeconds, wClock, wExisting, wPc, wWakeAt, wCandidate,
                   wResult, wRetAt>>
    /\ UNCHANGED otherThanWait

\* the browser writes more bytes to a file
FileGrows ==
    /\ wPc \in {"called", "sleep", "grace"}
    /\ \E p \in Sources \cap Watched(wPolicy), size \in Sizes :
          /\ wFiles[p] # 0
          /\ size > wFiles[p]
          /\ wFiles' = [wFiles EXCEPT ![p] = size]
    /\ wCompleteAt' = IF wPc = "called" THEN wCompleteAt ELSE CompleteAtAfter(wFiles')
    /\ UNCHANGED <<wPolicy, wTimeoutSeconds, wClock, wExisting, wPc, wWakeAt, wCandidate,
                   wResult, wRetAt, wEarly>>
    /\ UNCHANGED otherThanWait

\* the browser finishes a download: the partial file is renamed
DownloadCompletes ==
    /\ wPc \in {"called", "sleep", "grace"}
    /\ \E p \in {ExportPart, ReportPart} \cap Watched(wPolicy) :
          /\ wFiles[p] # 0
          /\ wFiles[CompleteOf(p)] = 0
          /\ wFiles' = [wFiles EXCEPT ![p] = 0, ![CompleteOf(p)] = wFiles[p]]
          /\ wEarly' = IF wPc = "called" /\ p \in wEarly
                       THEN (wEarly \ {p}) \cup {CompleteOf(p)} ELSE wEarly
    /\ wCompleteAt' = IF wPc = "called" THEN wCompleteAt ELSE CompleteAtAfter(wFiles')
    /\ UNCHANGED <<wPolicy, wTimeoutSeconds, wClock, wExisting, wPc, wWakeAt, wCandidate,
                   wResult, wRetAt>>
    /\ UNCHANGED otherThanWait

WaitIdle ==
    /\ wPolicy = "conservative" /\ wTimeoutSeconds = 0 /\ wClock = 0
    /\ wFiles = [p \in Paths |-> 0] /\ wExisting = {} /\ wPc = "idle" /\ wWakeAt = 0
    /\ wCandidate = NoFile /\ wResult = NoFile /\ wRetAt = Never
    /\ wCompleteAt = [p \in {ExportFile, ReportFile} |-> Never]
    /\ wEarly = {}

\* the wait is about to be called: a policy, a timeout, and the files the
\* directories already hold
WaitInit ==
    /\ wPolicy \in {"conservative", "ultra"}
    /\ wTimeoutSeconds \in IF wPolicy = "conservative"
                           THEN {MaxTimeoutSeconds - 1, MaxTimeoutSeconds}
                           ELSE {download_timeout}
    /\ wClock = 0
    /\ \E old \in SUBSET ({ExportFile, ReportFile} \cap Watched(wPolicy)) :
          wFiles = [p \in Paths |-> IF p \in old THEN 1001 ELSE 0]
    /\ wExisting = {} /\ wPc = "called" /\ wWakeAt = 0
    /\ wCandidate = NoFile /\ wResult = NoFile /\ wRetAt = Never
    /\ wCompleteAt = [p \in {ExportFile, ReportFile} |-> Never]
    /\ wEarly = {}

(***************************************************************************)
(* DIFF ANALYZER (analyze_element_differences)                             *)
(***************************************************************************)
NoHash == "None"

\* A snapshot as capture_page_elements_detailed returns it: the page hash,
\* the buttons (index, truncated outerHTML and the locator 'xpath') and the
\* clickable divs; the snapshot of a failed capture has none of these keys.
Button(i, html) == [index |-> i, outer_html |-> html, xpath |-> i]

ButtonLists ==
    {[i \in 1..Len(htmls) |-> Button(i, htmls[i])] :
        htmls \in {<<>>} \cup SeqsUpTo({"<button>A", "<button>B"}, MaxButtons)}

DivLists ==
    {[i \in 1..n |-> [index |-> i, class |-> "menu", xpath |-> i]] : n \in 0..MaxDivs}

ErrorSnapshot == [page_hash |-> NoHash, all_buttons |-> <<>>, all_clickable_divs |-> <<>>]

Snapshots ==
    [page_hash : {"h1", "h2"}, all_buttons : ButtonLists, all_clickable_divs : DivLists]
        \cup {ErrorSnapshot}

\* {btn['outer_html']: btn for btn in buttons}: the last button of each
\* outerHTML
ButtonsByHtml(buttons) ==
    [html \in {buttons[i].outer_html : i \in 1..Len(buttons)} |->
        buttons[CHOOSE i \in 1..Len(buttons) :
                    /\ buttons[i].outer_html = html
                    /\ \A j \in 1..Len(buttons) : buttons[j].outer_html = html => j <= i]]

\* the orders in which a set can be iterated
Orders(S) == {o \in [1..Cardinality(S) -> S] : \A x \in S : \E i \in DOMAIN o : o[i] = x}

\* after_divs[len(before_divs):]
DropFirst(s, n) == [i \in 1..(Len(s) - n) |-> s[i + n]]

AnalyzeElementDifferencesAnyAppeared(before, after, order) ==
    LET page_changed == before.page_hash # after.page_hash
        after_buttons == ButtonsByHtml(after.all_buttons)
        new_buttons == [i \in DOMAIN order |->
                           [type |-> "button", element |-> after_buttons[order[i]]]]
        after_divs == after.all_clickable_divs
        before_divs == before.all_clickable_divs
        new_menus_detected == Len(after_divs) > Len(before_divs)
        new_menus == IF new_menus_detected
                     THEN [i \in 1..(Len(after_divs) - Len(before_divs)) |->
                              [type |-> "menu",
                               element |-> DropFirst(after_divs, Len(before_divs))[i]]]
                     ELSE <<>>
        new_elements == new_buttons \o new_menus
    IN [page_changed |-> page_changed,
        new_elements |-> new_elements,
        disappeared_elements |-> <<>>,
        likely_clicked_element |->
            IF new_elements # <<>> THEN <<new_elements[1]>> ELSE <<>>,
        new_menus_detected |-> new_menus_detected]

\* analyze_element_differences(before, after) when the set of new button
\* htmls is iterated in the given order
AnalyzeElementDifferences(before, after, order) ==
    LET page_changed == before.page_hash # after.page_hash
        after_buttons == ButtonsByHtml(after.all_buttons)
        new_buttons == [i \in DOMAIN order |->
                           [type |-> "button", element |-> after_buttons[order[i]]]]
        after_divs == after.all_clickable_divs
        before_divs == before.all_clickable_divs
        new_menus_detected == Len(after_divs) > Len(before_divs)
        new_menus == IF new_menus_detected
                     THEN [i \in 1..(Len(after_divs) - Len(before_divs)) |->
                              [type |-> "menu",
                               element |-> DropFirst(after_divs, Len(before_divs))[i]]]
                     ELSE <<>>
        new_elements == new_buttons \o new_menus
    IN [page_changed |-> page_changed,
        new_elements |-> new_elements,
        disappeared_elements |-> <<>>,
        likely_clicked_element |->
            IF page_changed /\ new_elements # <<>> THEN <<new_elements[1]>> ELSE <<>>,
        new_menus_detected |-> new_menus_detected]

\* set(after_buttons.keys()) - set(before_buttons.keys())
NewButtonHtmls(before, after) ==
    DOMAIN ButtonsByHtml(after.all_buttons) \ DOMAIN ButtonsByHtml(before.all_buttons)

NoAnalysis == [page_changed |-> FALSE, new_elements |-> <<>>, disappeared_elements |-> <<>>,
               likely_clicked_element |-> <<>>, new_menus_detected |-> FALSE]

otherThanDiff ==
    <<resolverVars, batchVars, waitVars, runVars, schedVars, navVars, tierVars>>

\* analyze_element_differences(dA, dB)
AnalyzeForward ==
    /\ dPc \in {"ready", "backward"}
    /\ \E order \in Orders(NewButtonHtmls(dA, dB)) :
          dForward' = AnalyzeElementDifferences(dA, dB, order)
    /\ dPc' = IF dPc = "ready" THEN "forward" ELSE "done"
    /\ UNCHANGED <<dA, dB, dBackward, dSuccessful>>
    /\ UNCHANGED otherThanDiff

\* analyze_element_differences(dB, dA)
AnalyzeBackward ==
    /\ dPc \in {"ready", "forward"}
    /\ \E order \in Orders(NewButtonHtmls(dB, dA)) :
          dBackward' = AnalyzeElementDifferences(dB, dA, order)
    /\ dPc' = IF dPc = "ready" THEN "backward" ELSE "done"
    /\ UNCHANGED <<dA, dB, dForward, dSuccessful>>
    /\ UNCHANGED otherThanDiff

\* The session run_step_by_step_learning persists, as load_all_sessions
\* reads it back: the steps with their names, two of them with an analysis;
\* no 'dropdown_result' and no 'selection_result' key.
SessionSteps ==
    <<[name |-> "login"],
      [name |-> "dropdown_corporation", analysis |-> dForward],
      [name |-> "select_corporation", analysis |-> dBackward],
      [name |-> "export_all_rows"]>>

\* session['successful_selectors'] = {'login': learned_selectors['login']}:
\* a category, its sub-categories and the position of each locator in the list
SessionSuccessfulSelectors ==
    {<<<<"login", sub>>, i>> : sub \in {"username", "password", "submit"}, i \in 1..3}

\* step.get('analysis') and step['analysis'].get('likely_clicked_element')
HasLikelyClicked(step) ==
    "analysis" \in DOMAIN step /\ step.analysis.likely_clicked_element # <<>>

\* what the loop over session['steps'] appends for one step: the value under
\* 'xpath_sugerido' of the likely clicked element, when it has that key
LearnedFromStep(step) ==
    IF HasLikelyClicked(step)
    THEN LET element == step.analysis.likely_clicked_element[1]
         IN IF "element" \in DOMAIN element
                  /\ "xpath_sugerido" \in DOMAIN element.element
            THEN {<<<<"learned", step.name>>, element.element.xpath_sugerido>>}
            ELSE {}
    ELSE {}

\* extract_successful_selectors() on the session, duplicates removed
ExtractSuccessfulSelectors ==
    /\ dPc = "done"
    /\ dSuccessful' = SessionSuccessfulSelectors
                        \cup UNION {LearnedFromStep(SessionSteps[i]) : i \in DOMAIN SessionSteps}
    /\ dPc' = "extracted"
    /\ UNCHANGED <<dA, dB, dForward, dBackward>>
    /\ UNCHANGED otherThanDiff

DiffIdle ==
    /\ dA = ErrorSnapshot /\ dB = ErrorSnapshot
    /\ dForward = NoAnalysis /\ dBackward = NoAnalysis /\ dPc = "idle"
    /\ dSuccessful = {}

\* two snapshots have been captured
DiffInit ==
    /\ dA \in Snapshots /\ dB \in Snapshots
    /\ dForward = NoAnalysis /\ dBackward = NoAnalysis /\ dPc = "ready"
    /\ dSuccessful = {}

(***************************************************************************)
(* RUN FUNCTIONS (run_complete_scraping, run_manual_assisted_scraping,     *)
(* run_ultra_fast_processing, test_connection) and the browser driver they *)
(* own                                                                     *)
(*                                                                         *)
(* A step ends in one of: "ok", "fail" (it returned a falsy value),        *)
(* "raise" (an Exception left it) or "interrupt" (KeyboardInterrupt        *)
(* arrived while it was blocked).                                          *)
(***************************************************************************)
RunFunctions ==
    {"run_complete_scraping", "run_complete_scraping_improved",
     "run_manual_assisted_scraping", "run_ultra_fast_processing", "test_connection"}

\* run_complete_scraping and run_complete_scraping_improved have the same
\* structure: login, scope selection, export
CompleteRuns == {"run_complete_scraping", "run_complete_scraping_improved"}

StepOutcomes == {"ok", "fail", "raise", "interrupt"}

\* setup_firefox / setup_selenium_ultra_fast: an Exception is caught and
\* False returned, before or after webdriver.Firefox(...) was assigned to
\* self.driver; an interrupt is not caught
SetupOutcomes ==
    {[result |-> "ok", created |-> TRUE],
     [result |-> "fail", created |-> FALSE],
     [result |-> "fail", created |-> TRUE],
     [result |-> "interrupt", created |-> FALSE],
     [result |-> "interrupt", created |-> TRUE]}

\* self.driver.quit() behind `if self.driver:`
QuitIfDriver(driver) == IF driver = "none" THEN "none" ELSE "quit"

Quits(driver) == IF driver = "none" THEN 0 ELSE 1

\* how control leaves a try body after a step outcome
PendingOf(outcome) ==
    CASE outcome = "raise" -> "Exception"
      [] outcome = "interrupt" -> "Interrupt"
      [] OTHER -> "return"

\* the finally clause of the inner try of the two engine functions
InnerFinallyPc(fn) ==
    IF fn \in CompleteRuns THEN "c_finally" ELSE "m_finally"

otherThanRun ==
    <<resolverVars, batchVars, waitVars, diffVars, schedVars, navVars, tierVars>>

Logged(step, outcome) == Append(uTrace, <<step, outcome>>)

\* the first step of the inner try
AfterSetupPc(fn) == IF fn = "test_connection" THEN "t_probe" ELSE "login"

\* `if not self.setup_firefox(): return None`, outside the inner try
SetupFirefox ==
    /\ uPc = "setup"
    /\ uFn # "run_ultra_fast_processing"
    /\ \E o \in SetupOutcomes :
          /\ uDriver' = IF o.created THEN "open" ELSE "none"
          /\ uTrace' = Logged("setup", o.result)
          /\ IF o.result = "ok"
             THEN uPc' = AfterSetupPc(uFn) /\ uExit' = "running"
             ELSE IF o.result = "fail"
             THEN uPc' = "exit" /\ uExit' = "returned"
             ELSE uPc' = "exit" /\ uExit' = "propagated"
    /\ UNCHANGED <<uFn, uPending, uQuits, loginVars, uResult>>
    /\ UNCHANGED otherThanRun

max_attempts == 3

\* The page a login attempt ends on: the words its address contains and
\* whether its source contains "bienvenido" or "welcome".
Pages == [url : SUBSET {"login", "signin", "dashboard"}, welcome : BOOLEAN]

BlankPage == [url |-> {}, welcome |-> FALSE]

\* How one iteration of the attempt loop goes: driver.get raises, an
\* interrupt arrives, one of the three interactions reports failure, or the
\* form is submitted and a page is shown.
LoginAttempts ==
    [kind : {"get_raises", "interrupt", "no_username", "no_password", "no_submit"},
     page : {BlankPage}]
        \cup [kind : {"submitted"}, page : Pages]

\* login_success_indicators
LoginSuccessIndicators(page) ==
    <<"login" \notin page.url,
      "signin" \notin page.url,
      "dashboard" \in page.url \/ "sourcing" \in page.url,
      page.welcome>>

\* any(login_success_indicators)
AnyIndicator(page) ==
    \E i \in DOMAIN LoginSuccessIndicators(page) : LoginSuccessIndicators(page)[i]

AttemptSucceeds(a) == a.kind = "submitted" /\ AnyIndicator(a.page)

LoginGivesUpEarly(made, a) ==
    IF a.kind = "interrupt" THEN "interrupt"
    ELSE IF AttemptSucceeds(a) THEN "ok"
    ELSE IF made >= max_attempts - 1 THEN "failed"
    ELSE "retry"

\* what the loop `for attempt in range(max_attempts)` does after the
\* attempt number `made` went as `a`
LoginAfterAttempt(made, a) ==
    IF a.kind = "interrupt" THEN "interrupt"
    ELSE IF AttemptSucceeds(a) THEN "ok"
    ELSE IF made >= max_attempts THEN "failed"
    ELSE "retry"

\* the step after a successful login
AfterLoginPc(fn) == IF fn \in CompleteRuns THEN "select" ELSE "input_cliente"

\* one iteration of the attempt loop of login_to_ariba, and, when the loop
\* ends, `if not self.login_to_ariba(): return None` in the run function
LoginAttempt ==
    /\ uFn # "run_ultra_fast_processing"
    /\ uPc = "login"
    /\ \E a \in LoginAttempts :
          LET next == LoginAfterAttempt(Len(uLoginLog) + 1, a)
          IN /\ uLoginLog' = Append(uLoginLog, a)
             /\ uNavigations' = uNavigations + 1
             /\ uLogin' = IF next \in {"ok", "failed"} THEN next ELSE uLogin
             /\ uTrace' = IF next = "retry" THEN uTrace
                          ELSE Logged("login", IF next = "failed" THEN "fail" ELSE next)
             /\ uPc' = CASE next = "retry" -> "login"
                         [] next = "ok" -> AfterLoginPc(uFn)
                         [] OTHER -> InnerFinallyPc(uFn)
             /\ uPending' = IF next = "interrupt" THEN "Interrupt" ELSE uPending
    /\ UNCHANGED <<uFn, uDriver, uQuits, uExit, uResult>>
    /\ UNCHANGED otherThanRun

StepEndsTryOnFailedSelection(fn, pc, o) ==
    \/ o \in {"raise", "interrupt"}
    \/ pc = "select" /\ o = "fail"
    \/ pc = "export" /\ (o = "ok" \/ fn \in CompleteRuns)
    \/ pc = "wait"

\* whether the step at pc, ending as o, leaves the inner try: by an
\* exception, or by a return statement after export_all_rows / wait_for_download
StepEndsTry(fn, pc, o) ==
    \/ o \in {"raise", "interrupt"}
    \/ pc = "export" /\ (o = "ok" \/ fn \in CompleteRuns)
    \/ pc = "wait"

\* a step of the inner try after the login: select_cliente_autonomous /
\* select_corporation_improved, input(...), export_all_rows /
\* export_all_rows_improved, wait_for_download(180)
EngineStep ==
    /\ uFn # "run_ultra_fast_processing"
    /\ uPc \in {"select", "input_cliente", "export", "input_export", "wait"}
    /\ \E o \in StepOutcomes :
          /\ uTrace' = Logged(uPc, o)
          /\ IF StepEndsTry(uFn, uPc, o)
             THEN /\ uPc' = InnerFinallyPc(uFn)
                  /\ uPending' = PendingOf(o)
                  /\ uResult' = IF uPc \in {"export", "wait"} /\ o = "ok" THEN "file"
                                                                        ELSE "None"
             ELSE /\ uPending' = uPending
                  /\ uResult' = uResult
                  /\ uPc' = CASE uPc = "select" -> "export"
                              [] uPc = "input_cliente" -> "export"
                              [] uPc = "export" -> "input_export"
                              [] OTHER -> "wait"
    /\ UNCHANGED <<uFn, uDriver, uQuits, uExit, loginVars>>
    /\ UNCHANGED otherThanRun

\* after the finally clause: the return completes, the exception goes to the
\* outer `except Exception`, the interrupt propagates
AfterFinally(pending, exceptPc) ==
    CASE pending = "return" -> [pc |-> "exit", exit |-> "returned"]
      [] pending = "Exception" -> [pc |-> exceptPc, exit |-> "running"]
      [] OTHER -> [pc |-> "exit", exit |-> "propagated"]

\* finally of run_complete_scraping: if self.driver: self.driver.quit()
CompleteFinally ==
    /\ uPc = "c_finally"
    /\ uDriver' = QuitIfDriver(uDriver)
    /\ uQuits' = uQuits + Quits(uDriver)
    /\ uPc' = AfterFinally(uPending, "c_except").pc
    /\ uExit' = AfterFinally(uPending, "c_except").exit
    /\ uTrace' = Logged("finally", "ok")
    /\ UNCHANGED <<uFn, uPending, loginVars, uResult>>
    /\ UNCHANGED otherThanRun

\* finally of run_manual_assisted_scraping: input(...) and then
\* if self.driver: self.driver.quit()
ManualFinally ==
    /\ uPc = "m_finally"
    /\ \E o \in {"ok", "raise", "interrupt"} :
          /\ uTrace' = Logged("finally", o)
          /\ IF o = "ok"
             THEN /\ uDriver' = QuitIfDriver(uDriver)
                  /\ uQuits' = uQuits + Quits(uDriver)
                  /\ uPending' = uPending
                  /\ uPc' = AfterFinally(uPending, "m_except").pc
                  /\ uExit' = AfterFinally(uPending, "m_except").exit
             ELSE /\ uPending' = PendingOf(o)
                  /\ uPc' = AfterFinally(PendingOf(o), "m_except").pc
                  /\ uExit' = AfterFinally(PendingOf(o), "m_except").exit
                  /\ UNCHANGED <<uDriver, uQuits>>
    /\ UNCHANGED <<uFn, loginVars, uResult>>
    /\ UNCHANGED otherThanRun

\* except Exception of run_complete_scraping: if self.driver: quit; return None
CompleteExcept ==
    /\ uPc = "c_except"
    /\ uDriver' = QuitIfDriver(uDriver)
    /\ uQuits' = uQuits + Quits(uDriver)
    /\ uPc' = "exit"
    /\ uExit' = "returned"
    /\ uPending' = "return"
    /\ uTrace' = Logged("except", "ok")
    /\ uResult' = "None"
    /\ UNCHANGED <<uFn, loginVars>>
    /\ UNCHANGED otherThanRun

\* except Exception of run_manual_assisted_scraping: if self.driver:
\* input(...); quit; return None
ManualExcept ==
    /\ uPc = "m_except"
    /\ \E o \in {"ok", "raise", "interrupt"} :
          /\ uTrace' = Logged("except", o)
          /\ uPc' = "exit"
          /\ IF uDriver = "none" \/ o = "ok"
             THEN /\ uDriver' = QuitIfDriver(uDriver)
                  /\ uQuits' = uQuits + Quits(uDriver)
                  /\ uExit' = "returned"
                  /\ uPending' = "return"
             ELSE /\ uExit' = "propagated"
                  /\ uPending' = PendingOf(o)
                  /\ UNCHANGED <<uDriver, uQuits>>
    /\ uResult' = "None"
    /\ UNCHANGED <<uFn, loginVars>>
    /\ UNCHANGED otherThanRun

\* the inner try of test_connection: driver.get, the wait for readyState and
\* the test of the page source; True when an indicator is found ("ok"),
\* False when none is ("fail")
TestConnectionProbe ==
    /\ uFn = "test_connection"
    /\ uPc = "t_probe"
    /\ \E o \in StepOutcomes :
          /\ uTrace' = Logged("probe", o)
          /\ uPending' = PendingOf(o)
          /\ uResult' = IF o = "ok" THEN "True" ELSE "False"
    /\ uPc' = "t_finally"
    /\ UNCHANGED <<uFn, uDriver, uQuits, uExit, loginVars>>
    /\ UNCHANGED otherThanRun

\* finally of test_connection: self.driver.quit()
TestConnectionFinally ==
    /\ uPc = "t_finally"
    /\ uDriver' = "quit"
    /\ uQuits' = uQuits + 1
    /\ uPc' = AfterFinally(uPending, "t_except").pc
    /\ uExit' = AfterFinally(uPending, "t_except").exit
    /\ uTrace' = Logged("finally", "ok")
    /\ UNCHANGED <<uFn, uPending, loginVars, uResult>>
    /\ UNCHANGED otherThanRun

\* except Exception of test_connection: if self.driver: quit; return False
TestConnectionExcept ==
    /\ uPc = "t_except"
    /\ uDriver' = QuitIfDriver(uDriver)
    /\ uQuits' = uQuits + Quits(uDriver)
    /\ uPc' = "exit"
    /\ uExit' = "returned"
    /\ uPending' = "return"
    /\ uTrace' = Logged("except", "ok")
    /\ uResult' = "False"
    /\ UNCHANGED <<uFn, loginVars>>
    /\ UNCHANGED otherThanRun

\* a step of the try body of run_ultra_fast_processing:
\* cargar_licitaciones_desde_json, Confirm.ask, the item loop, the final
\* checkpoint and reports.  An Exception is handled by `except Exception`
\* (return False) before the finally clause runs.
UltraStep ==
    /\ uFn = "run_ultra_fast_processing"
    /\ uPc \in {"load", "confirm", "loop", "finish"}
    /\ \E o \in StepOutcomes :
          /\ uTrace' = Logged(uPc, o)
          /\ IF o = "ok" /\ uPc # "finish"
             THEN /\ uPending' = uPending
                  /\ uPc' = CASE uPc = "load" -> "u_setup"
                              [] uPc = "confirm" -> "loop"
                              [] OTHER -> "finish"
             ELSE /\ uPc' = "u_finally"
                  /\ uPending' = IF o = "interrupt" THEN "Interrupt" ELSE "return"
    /\ UNCHANGED <<uFn, uDriver, uQuits, uExit, loginVars, uResult>>
    /\ UNCHANGED otherThanRun

\* `if not self.setup_selenium_ultra_fast(): return False`, inside the try
UltraSetup ==
    /\ uPc = "u_setup"
    /\ \E o \in SetupOutcomes :
          /\ uDriver' = IF o.created THEN "open" ELSE "none"
          /\ uTrace' = Logged("setup", o.result)
          /\ IF o.result = "ok"
             THEN uPc' = "confirm" /\ uPending' = uPending
             ELSE uPc' = "u_finally" /\ uPending' = PendingOf(o.result)
    /\ UNCHANGED <<uFn, uQuits, uExit, loginVars, uResult>>
    /\ UNCHANGED otherThanRun

\* finally of run_ultra_fast_processing: if self.driver: self.driver.quit()
UltraFinally ==
    /\ uPc = "u_finally"
    /\ uDriver' = QuitIfDriver(uDriver)
    /\ uQuits' = uQuits + Quits(uDriver)
    /\ uPc' = "exit"
    /\ uExit' = IF uPending = "Interrupt" THEN "propagated" ELSE "returned"
    /\ uTrace' = Logged("finally", "ok")
    /\ UNCHANGED <<uFn, uPending, loginVars, uResult>>
    /\ UNCHANGED otherThanRun

RunIdle ==
    /\ uFn = "run_complete_scraping" /\ uPc = "idle" /\ uDriver = "none" /\ uQuits = 0
    /\ uExit = "running" /\ uPending = "return" /\ uTrace = <<>>
    /\ uLogin = "none" /\ uLoginLog = <<>> /\ uNavigations = 0 /\ uResult = "None"

\* a run function is called on a freshly constructed object (self.driver = None)
RunInit ==
    /\ uFn \in RunFunctions
    /\ uPc = IF uFn = "run_ultra_fast_processing" THEN "load" ELSE "setup"
    /\ uDriver = "none" /\ uQuits = 0
    /\ uExit = "running" /\ uPending = "return" /\ uTrace = <<>>
    /\ uLogin = "none" /\ uLoginLog = <<>> /\ uNavigations = 0 /\ uResult = "None"

(***************************************************************************)
(* SCHEDULER (scheduler_automation.py)                                     *)
(*                                                                         *)
(* The menu thread calls start_scheduler, stop_scheduler and run_task_now; *)
(* every start_scheduler that finds self.running False starts one more     *)
(* daemon thread on scheduler_loop.  execute_task blocks its thread in     *)
(* subprocess.run for up to an hour, scheduler_loop sleeps 60 s between    *)
(* polls, and stop_scheduler joins for at most 5 s: a thread that is       *)
(* sleeping or executing can outlive the join.  The statistics that        *)
(* execute_task writes (run_count, success_count, last_run) are left out.  *)
(***************************************************************************)
Tasks == {"scraping_diario", "monitoreo_sistema"}

NoTask == "none"

ThreadIds == 1..MaxThreads

NotStarted == [pc |-> "none", task |-> NoTask]

\* threading.Thread.is_alive() of thread t
Alive(t) == sThreads[t].pc \in {"loop", "pending", "exec", "sleep"}

Started == {t \in ThreadIds : sThreads[t].pc # "none"}

\* the threads, the menu thread included (as 0), that are inside execute_task
Executing ==
    {t \in ThreadIds : sThreads[t].pc = "exec"}
        \cup (IF sMain.pc = "exec" THEN {0} ELSE {})

otherThanSched ==
    <<resolverVars, batchVars, waitVars, diffVars, runVars, navVars, tierVars>>

\* start_scheduler(), from the menu or as the last step of a restart
StartScheduler ==
    /\ sMain.pc \in {"menu", "restart"}
    /\ sRunning \/ Cardinality(Started) < MaxThreads
    /\ sMain' = [pc |-> "menu", task |-> NoTask, next |-> "menu"]
    /\ IF sRunning
       THEN UNCHANGED <<sRunning, sThreads, sCurrent, sJobs, sDue>>
       ELSE LET t == Cardinality(Started) + 1
            IN /\ sJobs' = Tasks
               /\ sDue' = {}
               /\ sRunning' = TRUE
               /\ sThreads' = [sThreads EXCEPT ![t] = [pc |-> "loop", task |-> NoTask]]
               /\ sCurrent' = t
    /\ UNCHANGED otherThanSched

\* stop_scheduler() up to the join; `next` is "menu" for the menu's stop and
\* "restart" where time.sleep(1) and start_scheduler() follow
StopScheduler ==
    /\ sMain.pc = "menu"
    /\ \E next \in {"menu", "restart"} :
          IF ~sRunning
          THEN /\ sMain' = [sMain EXCEPT !.pc = next]
               /\ UNCHANGED sRunning
          ELSE /\ sRunning' = FALSE
               /\ sMain' = [pc |-> "join", task |-> NoTask, next |-> next]
    /\ UNCHANGED <<sThreads, sCurrent, sJobs, sDue>>
    /\ UNCHANGED otherThanSched

\* self.scheduler_thread.join(timeout=5) returns, because the thread has
\* ended or because it is blocked for longer than the timeout; then
\* schedule.clear()
JoinEnds ==
    /\ sMain.pc = "join"
    /\ sThreads[sCurrent].pc \in {"dead", "sleep", "exec"}
    /\ sJobs' = {}
    /\ sDue' = {}
    /\ sMain' = [sMain EXCEPT !.pc = sMain.next]
    /\ UNCHANGED <<sRunning, sThreads, sCurrent>>
    /\ UNCHANGED otherThanSched

\* run_task_now(task_name) up to the subprocess started by execute_task
RunTaskNow ==
    /\ sMain.pc = "menu"
    /\ \E task \in Tasks : sMain' = [pc |-> "exec", task |-> task, next |-> "menu"]
    /\ UNCHANGED <<sRunning, sThreads, sCurrent, sJobs, sDue>>
    /\ UNCHANGED otherThanSched

\* the subprocess of run_task_now ends (or times out) and execute_task returns
MainTaskEnds ==
    /\ sMain.pc = "exec"
    /\ sMain' = [pc |-> "menu", task |-> NoTask, next |-> "menu"]
    /\ UNCHANGED <<sRunning, sThreads, sCurrent, sJobs, sDue>>
    /\ UNCHANGED otherThanSched

\* scheduler_loop: `while self.running`
WorkerLoop ==
    /\ \E t \in ThreadIds :
          /\ sThreads[t].pc = "loop"
          /\ sThreads' = [sThreads EXCEPT ![t].pc = IF sRunning THEN "pending" ELSE "dead"]
    /\ UNCHANGED <<sRunning, sCurrent, sMain, sJobs, sDue>>
    /\ UNCHANGED otherThanSched

\* schedule.run_pending(): the next job that is due is run through
\* execute_task; with no job due the thread goes to time.sleep(60)
WorkerRunPending ==
    /\ \E t \in ThreadIds :
          /\ sThreads[t].pc = "pending"
          /\ IF sDue # {}
             THEN \E job \in sDue :
                     sThreads' = [sThreads EXCEPT ![t] = [pc |-> "exec", task |-> job]]
             ELSE sThreads' = [sThreads EXCEPT ![t] = [pc |-> "sleep", task |-> NoTask]]
    /\ UNCHANGED <<sRunning, sCurrent, sMain, sJobs, sDue>>
    /\ UNCHANGED otherThanSched

\* execute_task returns on a scheduler thread; the job gets its next run time
WorkerTaskEnds ==
    /\ \E t \in ThreadIds :
          /\ sThreads[t].pc = "exec"
          /\ sDue' = sDue \ {sThreads[t].task}
          /\ sThreads' = [sThreads EXCEPT ![t] = [pc |-> "pending", task |-> NoTask]]
    /\ UNCHANGED <<sRunning, sCurrent, sMain, sJobs>>
    /\ UNCHANGED otherThanSched

\* time.sleep(60) ends
WorkerWakes ==
    /\ \E t \in ThreadIds :
          /\ sThreads[t].pc = "sleep"
          /\ sThreads' = [sThreads EXCEPT ![t].pc = "loop"]
    /\ UNCHANGED <<sRunning, sCurrent, sMain, sJobs, sDue>>
    /\ UNCHANGED otherThanSched

\* the clock reaches the next_run of a registered job
JobBecomesDue ==
    /\ \E job \in sJobs \ sDue : sDue' = sDue \cup {job}
    /\ UNCHANGED <<sRunning, sThreads, sCurrent, sMain, sJobs>>
    /\ UNCHANGED otherThanSched

SchedIdle ==
    /\ sRunning = FALSE
    /\ sThreads = [t \in ThreadIds |-> NotStarted]
    /\ sCurrent = 0
    /\ sMain = [pc |-> "off", task |-> NoTask, next |-> "menu"]
    /\ sJobs = {} /\ sDue = {}

\* AlfamineScheduler(): not running, no thread, main() at its menu
SchedInit ==
    /\ sRunning = FALSE
    /\ sThreads = [t \in ThreadIds |-> NotStarted]
    /\ sCurrent = 0
    /\ sMain = [pc |-> "menu", task |-> NoTask, next |-> "menu"]
    /\ sJobs = {} /\ sDue = {}

(***************************************************************************)
(* NAVIGATION TO ONE ITEM (navigate_ultra_fast, detect_login_page,         *)
(* handle_login of sistema_iterativo_completo.py)                          *)
(*                                                                         *)
(* A page is described by what the three functions look at:                *)
(*   url_login  the address contains 'login', 'signin', 'auth' or 'logon'  *)
(*   indicator  one of the login_indicators is found and displayed         *)
(*   fields     a username field, a password field and a submit button are *)
(*              found, displayed and enabled                               *)
(*   broken     the driver raises when it is asked about the page          *)
(***************************************************************************)
max_login_attempts == 3

NavPages == [url_login : BOOLEAN, indicator : BOOLEAN, fields : BOOLEAN, broken : BOOLEAN]

NoPage == [url_login |-> FALSE, indicator |-> FALSE, fields |-> FALSE, broken |-> FALSE]

\* detect_login_page(): the address, then the indicators; False when the
\* driver raises
DetectLoginPage(page) ==
    IF page.broken THEN FALSE ELSE page.url_login \/ page.indicator

\* all([username_field, password_field, submit_button]); find_login_element
\* returns None when the driver raises
AllFieldsFound(page) == ~page.broken /\ page.fields

AttemptEndsIgnoringRecheck(attempt, still_login) == "True"

\* how an attempt of handle_login that submitted the form ends: return True,
\* the next attempt, or return False after the loop
AttemptEnds(attempt, still_login) ==
    IF ~still_login THEN "True"
    ELSE IF attempt < max_login_attempts THEN "retry" ELSE "False"

otherThanNav ==
    <<resolverVars, batchVars, waitVars, diffVars, runVars, schedVars, tierVars>>

\* navigate_ultra_fast(link) up to the page load
NavGet ==
    /\ nPc = "start"
    /\ IF nErrors >= skip_threshold
       THEN /\ nResult' = "False"
            /\ nPc' = "done"
            /\ UNCHANGED nPage
       ELSE \E load \in {"ok", "timeout", "raise"} :
               IF load = "ok"
               THEN /\ nPage' \in NavPages
                    /\ nPc' = "detect"
                    /\ UNCHANGED nResult
               ELSE /\ nResult' = "False"
                    /\ nPc' = "done"
                    /\ UNCHANGED nPage
    /\ UNCHANGED <<nErrors, nCredentials, nAttempt, nDetects, nSubmits, nHandle>>
    /\ UNCHANGED otherThanNav

\* `if self.detect_login_page():` after the load; without a signal the
\* function returns True, with one handle_login() is called, which returns
\* False at once without both credentials
NavDetect ==
    /\ nPc = "detect"
    /\ LET signal == DetectLoginPage(nPage)
       IN /\ nDetects' = Append(nDetects, [page |-> nPage, signal |-> signal])
          /\ IF ~signal
             THEN /\ nResult' = "True"
                  /\ nPc' = "done"
                  /\ UNCHANGED nHandle
             ELSE IF ~nCredentials
             THEN /\ nHandle' = "False"
                  /\ nResult' = "False"
                  /\ nPc' = "done"
             ELSE /\ nHandle' = "called"
                  /\ nPc' = "attempt"
                  /\ UNCHANGED nResult
    /\ UNCHANGED <<nErrors, nCredentials, nPage, nAttempt, nSubmits>>
    /\ UNCHANGED otherThanNav

\* what handle_login returning `outcome` means for navigate_ultra_fast
HandleLoginReturns(outcome) ==
    IF outcome = "retry"
    THEN /\ nPc' = "attempt"
         /\ UNCHANGED <<nHandle, nResult>>
    ELSE /\ nPc' = "done"
         /\ nHandle' = outcome
         /\ nResult' = outcome

\* one iteration of `for attempt in range(max_login_attempts)`
HandleLoginAttempt ==
    /\ nPc = "attempt"
    /\ nAttempt' = nAttempt + 1
    /\ LET more == IF nAttempt' < max_login_attempts THEN "retry" ELSE "False"
       IN IF ~AllFieldsFound(nPage)
          THEN /\ HandleLoginReturns(more)
               /\ UNCHANGED <<nPage, nDetects, nSubmits>>
          ELSE \E raises \in BOOLEAN :
                  IF raises
                  THEN /\ HandleLoginReturns(more)
                       /\ UNCHANGED <<nPage, nDetects, nSubmits>>
                  ELSE \E page \in NavPages :
                          LET signal == DetectLoginPage(page)
                          IN /\ nPage' = page
                             /\ nSubmits' = nSubmits + 1
                             /\ nDetects' =
                                   Append(nDetects, [page |-> page, signal |-> signal])
                             /\ HandleLoginReturns(AttemptEnds(nAttempt', signal))
    /\ UNCHANGED <<nErrors, nCredentials>>
    /\ UNCHANGED otherThanNav

NavIdle ==
    /\ nErrors = 0 /\ nCredentials = FALSE /\ nPc = "idle" /\ nPage = NoPage
    /\ nAttempt = 0 /\ nDetects = <<>> /\ nSubmits = 0 /\ nHandle = "none"
    /\ nResult = "none"

\* a call of navigate_ultra_fast with any value the counter can have
NavInit ==
    /\ nErrors \in 0..skip_threshold
    /\ nCredentials \in BOOLEAN
    /\ nPc = "start" /\ nPage = NoPage
    /\ nAttempt = 0 /\ nDetects = <<>> /\ nSubmits = 0 /\ nHandle = "none"
    /\ nResult = "none"

(***************************************************************************)
(* HEURISTIC STRATEGIES (_strategy_intelligent_search,                     *)
(* _strategy_brute_force, _strategy_javascript_injection)                  *)
(*                                                                         *)
(* An element of the page is described by its tag, one class token, its    *)
(* text, whether its outerHTML holds an arrow indicator, whether it is     *)
(* displayed and enabled, and whether activating it makes the menu with    *)
(* the corporation visible.                                                *)
(***************************************************************************)
max_elements == 30

HElements ==
    {[tag |-> "button", class |-> "menu", text |-> "", arrow |-> FALSE,
      displayed |-> TRUE, enabled |-> TRUE, opens |-> TRUE],
     [tag |-> "button", class |-> "control", text |-> "", arrow |-> TRUE,
      displayed |-> TRUE, enabled |-> TRUE, opens |-> TRUE],
     [tag |-> "button", class |-> "", text |-> "cliente", arrow |-> FALSE,
      displayed |-> TRUE, enabled |-> TRUE, opens |-> FALSE],
     [tag |-> "button", class |-> "", text |-> "todos", arrow |-> FALSE,
      displayed |-> TRUE, enabled |-> FALSE, opens |-> FALSE],
     [tag |-> "button", class |-> "menu", text |-> "", arrow |-> FALSE,
      displayed |-> FALSE, enabled |-> TRUE, opens |-> FALSE],
     [tag |-> "div", class |-> "dropdown", text |-> "", arrow |-> FALSE,
      displayed |-> TRUE, enabled |-> TRUE, opens |-> TRUE]}

NotScored == 0 - 1

\* `kw in text` for the explored texts
TextHas(text, kw) == text = kw \/ (text = "cliente" /\ kw = "client")

\* the score of _strategy_intelligent_search for a displayed button
ScoreIntelligent(el) ==
    (IF el.class = "menu" THEN 3 ELSE 0)
        + (IF el.class = "dropdown" THEN 3 ELSE 0)
        + (IF el.class = "control" THEN 2 ELSE 0)
        + (IF TextHas(el.text, "cliente") \/ TextHas(el.text, "client") THEN 4 ELSE 0)
        + (IF TextHas(el.text, "todos") THEN 2 ELSE 0)
        + (IF el.arrow THEN 2 ELSE 0)

\* the score of the script of _strategy_javascript_injection
ScoreInjection(el) ==
    (IF el.class = "menu" THEN 3 ELSE 0)
        + (IF el.class = "dropdown" THEN 3 ELSE 0)
        + (IF el.class = "control" THEN 2 ELSE 0)
        + (IF TextHas(el.text, "cliente") THEN 4 ELSE 0)
        + (IF TextHas(el.text, "client") THEN 4 ELSE 0)
        + (IF TextHas(el.text, "todos") THEN 2 ELSE 0)

\* the elements scored at least 3, by falling score (both sorts are stable),
\* cut to the first n
TopCandidates(scores, n) ==
    LET cands == {i \in DOMAIN scores : scores[i] >= 3}
        sorted == CHOOSE s \in [1..Cardinality(cands) -> cands] :
                     \A i, j \in 1..Cardinality(cands) :
                        i < j => \/ scores[s[i]] > scores[s[j]]
                                 \/ (scores[s[i]] = scores[s[j]] /\ s[i] < s[j])
        kept == IF Cardinality(cands) < n THEN Cardinality(cands) ELSE n
    IN [i \in 1..kept |-> sorted[i]]

\* EC.element_to_be_clickable((By.XPATH, xpath)): an element that the XPath
\* selects is displayed and enabled; a bare name selects the document's root
\* element of that tag name
ElementToBeClickable(page, xpath, el) ==
    \E i \in DOMAIN page :
        page[i].tag = xpath /\ page[i].displayed /\ page[i].enabled

\* what a click of _strategy_brute_force leaves behind: raises (both click
\* calls raised), url (current_url differs from initial_url), length (the
\* page source length differs by more than 1000), menu (an element with a
\* menu or dropdown class is displayed), keyword (an element with the text
\* Codelco or Corporación is displayed)
BruteEffects ==
    [raises : BOOLEAN, url : BOOLEAN, length : BOOLEAN, menu : BOOLEAN, keyword : BOOLEAN]

NoEffect ==
    [raises |-> FALSE, url |-> FALSE, length |-> FALSE, menu |-> FALSE, keyword |-> FALSE]

\* the two `return True` of the loop of _strategy_brute_force
BruteSuccess(effect) == effect.keyword \/ (effect.length /\ effect.menu)

\* the numbers of displayed and enabled elements explored
BruteCounts == {0, 1, max_elements, MaxClickable}

otherThanTiers ==
    <<resolverVars, batchVars, waitVars, diffVars, runVars, schedVars, navVars>>

\* strategies 2 and 4 up to the sorted candidate list; the script of
\* strategy 4 uses `await` outside an async function, so execute_script may
\* raise before anything is scanned
TierScan ==
    /\ hPc = "start"
    /\ hStrategy \in {2, 4}
    /\ IF hStrategy = 2
       THEN /\ hScores' = [i \in DOMAIN hPage |->
                              IF hPage[i].tag = "button" /\ hPage[i].displayed
                              THEN ScoreIntelligent(hPage[i]) ELSE NotScored]
            /\ hCands' = TopCandidates(hScores', 3)
            /\ hPc' = "try"
            /\ UNCHANGED hResult
       ELSE \E runs \in BOOLEAN :
               IF runs
               THEN /\ hScores' = [i \in DOMAIN hPage |-> ScoreInjection(hPage[i])]
                    /\ hCands' = TopCandidates(hScores', 5)
                    /\ hPc' = "try"
                    /\ UNCHANGED hResult
               ELSE /\ hResult' = "False"
                    /\ hPc' = "done"
                    /\ UNCHANGED <<hScores, hCands>>
    /\ UNCHANGED <<hStrategy, hPage, hClickable, hIdx, hEffect>>
    /\ UNCHANGED otherThanTiers

\* one candidate of strategy 2 (_try_multiple_click_methods with the
\* selector "candidato_N", then the visible menus) or of strategy 4 (the
\* three mouse events, then the visible corporation text)
TierTry ==
    /\ hPc = "try"
    /\ IF hCands = <<>>
       THEN /\ hResult' = "False"
            /\ hPc' = "done"
            /\ UNCHANGED <<hCands, hIdx>>
       ELSE LET el == hPage[hCands[1]]
                clicked == IF hStrategy = 2
                           THEN ElementToBeClickable(hPage, "candidato_N", el)
                           ELSE TRUE
            IN /\ hIdx' = hIdx + 1
               /\ IF clicked /\ el.opens
                  THEN /\ hResult' = "True"
                       /\ hPc' = "done"
                       /\ UNCHANGED hCands
                  ELSE /\ hCands' = Tail(hCands)
                       /\ UNCHANGED <<hResult, hPc>>
    /\ UNCHANGED <<hStrategy, hPage, hClickable, hScores, hEffect>>
    /\ UNCHANGED otherThanTiers

\* one iteration of the loop of _strategy_brute_force over
\* clickeable_elements[:max_elements], or its end
BruteClick ==
    /\ hPc = "start"
    /\ hStrategy = 3
    /\ LET limit == IF hClickable < max_elements THEN hClickable ELSE max_elements
       IN IF hIdx >= limit
          THEN /\ hResult' = "False"
               /\ hPc' = "done"
               /\ UNCHANGED <<hIdx, hEffect>>
          ELSE \E effect \in BruteEffects :
                  /\ hIdx' = hIdx + 1
                  /\ hEffect' = effect
                  /\ IF ~effect.raises /\ BruteSuccess(effect)
                     THEN /\ hResult' = "True"
                          /\ hPc' = "done"
                     ELSE UNCHANGED <<hResult, hPc>>
    /\ UNCHANGED <<hStrategy, hPage, hClickable, hScores, hCands>>
    /\ UNCHANGED otherThanTiers

TiersIdle ==
    /\ hStrategy = 2 /\ hPage = <<>> /\ hClickable = 0 /\ hPc = "idle"
    /\ hScores = <<>> /\ hCands = <<>> /\ hIdx = 0 /\ hEffect = NoEffect
    /\ hResult = "none"

\* one of the three strategies is called on a page
TiersInit ==
    /\ hStrategy \in {2, 3, 4}
    /\ hPage \in {<<>>} \cup SeqsUpTo(HElements, MaxElements)
    /\ hClickable \in BruteCounts
    /\ hStrategy = 3 => hPage = <<>>
    /\ hStrategy # 3 => hClickable = 0
    /\ hPc = "start"
    /\ hScores = <<>> /\ hCands = <<>> /\ hIdx = 0 /\ hEffect = NoEffect
    /\ hResult = "none"

ResolverIdle ==
    /\ rEngine = "basic" /\ rCaller = "direct" /\ rAction = "find" /\ rValue = FALSE
    /\ rLocs = <<"none">> /\ rOpts = <<"none">> /\ rTarget = "main" /\ rIdx = 1
    /\ rVisibleInput = FALSE
    /\ rTried = <<>> /\ rAttempts = <<>> /\ rResult = NoResult /\ rMain = NoResult
    /\ rShots = <<>> /\ rStrategy = 1 /\ rTiers = <<>> /\ rReports = <<>> /\ rCodelco = <<>>
    /\ rPc = "idle" /\ rOutcome = "none" /\ rRaised = FALSE

\* the calls explored: a bare call of either engine with any action,
\* select_cliente_autonomous (basic engine) and select_corporation_improved
ResolverInit ==
    /\ rCaller \in {"direct", "autonomous", "corporation"}
    /\ rEngine \in {"basic", "improved"}
    /\ rCaller = "autonomous" => rEngine = "basic"
    /\ rCaller = "corporation" => rEngine = "improved"
    /\ rAction \in {"click", "write", "find"}
    /\ rCaller # "direct" => rAction = "click"
    /\ rValue \in BOOLEAN
    /\ rAction # "write" => rValue = FALSE
    /\ rLocs \in SeqsUpTo(ControlKinds, MaxLocators)
    /\ rVisibleInput \in BOOLEAN
    /\ rOpts \in SeqsUpTo(OptionKinds, MaxOptions)
    /\ rCaller = "direct" => rOpts = <<"none">>
    /\ rTarget = "main" /\ rIdx = 1
    /\ rTried = <<>> /\ rAttempts = <<>> /\ rResult = NoResult /\ rMain = NoResult
    /\ rShots = <<>> /\ rStrategy = 1 /\ rTiers = <<>> /\ rReports = <<>> /\ rCodelco = <<>>
    /\ rPc = IF rCaller = "autonomous" THEN "strat" ELSE "call"
    /\ rOutcome = "none" /\ rRaised = FALSE

InitResolver ==
    ResolverInit /\ BatchIdle /\ WaitIdle /\ DiffIdle /\ RunIdle /\ SchedIdle /\ NavIdle
        /\ TiersIdle

NextResolver ==
    \/ CallStart
    \/ TryLocator
    \/ CallExhausted
    \/ ReturnDirect
    \/ ReturnCorporation
    \/ RunStrategy
    \/ ReturnAutonomous

SpecResolver == InitResolver /\ [][NextResolver]_vars

InitBatch ==
    BatchInit /\ ResolverIdle /\ WaitIdle /\ DiffIdle /\ RunIdle /\ SchedIdle /\ NavIdle
        /\ TiersIdle

NextBatch ==
    \/ ProcessItem
    \/ FinishBatch

SpecBatch == InitBatch /\ [][NextBatch]_vars

InitWait ==
    WaitInit /\ ResolverIdle /\ BatchIdle /\ DiffIdle /\ RunIdle /\ SchedIdle /\ NavIdle
        /\ TiersIdle

NextWait ==
    \/ StartWait
    \/ Tick
    \/ Scan
    \/ GraceDone
    \/ FileAppears
    \/ FileGrows
    \/ DownloadCompletes

SpecWait == InitWait /\ [][NextWait]_vars

InitDiff ==
    DiffInit /\ ResolverIdle /\ BatchIdle /\ WaitIdle /\ RunIdle /\ SchedIdle /\ NavIdle
        /\ TiersIdle

NextDiff ==
    \/ AnalyzeForward
    \/ AnalyzeBackward
    \/ ExtractSuccessfulSelectors

SpecDiff == InitDiff /\ [][NextDiff]_vars

InitRun ==
    RunInit /\ ResolverIdle /\ BatchIdle /\ WaitIdle /\ DiffIdle /\ SchedIdle /\ NavIdle
        /\ TiersIdle

NextRun ==
    \/ SetupFirefox
    \/ LoginAttempt
    \/ EngineStep
    \/ CompleteFinally
    \/ ManualFinally
    \/ CompleteExcept
    \/ ManualExcept
    \/ UltraStep
    \/ UltraSetup
    \/ UltraFinally
    \/ TestConnectionProbe
    \/ TestConnectionFinally
    \/ TestConnectionExcept

SpecRun == InitRun /\ [][NextRun]_vars

InitSched ==
    SchedInit /\ ResolverIdle /\ BatchIdle /\ WaitIdle /\ DiffIdle /\ RunIdle /\ NavIdle
        /\ TiersIdle

NextSched ==
    \/ StartScheduler
    \/ StopScheduler
    \/ JoinEnds
    \/ RunTaskNow
    \/ MainTaskEnds
    \/ WorkerLoop
    \/ WorkerRunPending
    \/ WorkerTaskEnds
    \/ WorkerWakes
    \/ JobBecomesDue

SpecSched == InitSched /\ [][NextSched]_vars

InitNav ==
    NavInit /\ ResolverIdle /\ BatchIdle /\ WaitIdle /\ DiffIdle /\ RunIdle /\ SchedIdle
        /\ TiersIdle

NextNav ==
    \/ NavGet
    \/ NavDetect
    \/ HandleLoginAttempt

SpecNav == InitNav /\ [][NextNav]_vars

InitTiers ==
    TiersInit /\ ResolverIdle /\ BatchIdle /\ WaitIdle /\ DiffIdle /\ RunIdle /\ SchedIdle
        /\ NavIdle

NextTiers ==
    \/ TierScan
    \/ TierTry
    \/ BruteClick

SpecTiers == InitTiers /\ [][NextTiers]_vars

(***************************************************************************)
(* Claims about the locator resolver.                                      *)
(***************************************************************************)
\* the main call has returned and its result is the current one
MainCallReturned == rPc = "ret" /\ rTarget = "main"

\* the action on the control the first locator matches is verified: find;
\* click with a click method of the engine completing; write of a non-empty
\* value whose read-back equals it
FirstVerified ==
    LET k == rLocs[1]
    IN /\ Displayed(k)
       /\ CASE rAction = "find" -> TRUE
            [] rAction = "click" -> ClickMethods(rEngine, k)
            [] OTHER -> rValue /\ ~KeysRaise(k) /\ ReadBackEqual(k)

NoEntryMatches == \A i \in 1..Len(rLocs) : rLocs[i] = "none"

\* C1 as stated: whenever the first locator of the list matches a visible and
\* enabled control, the call returns success attributed to that first
\* locator, has tried no later locator, and no later tier is ever invoked.
C1_Original ==
    Clickable(rLocs[1]) =>
        /\ MainCallReturned =>
              /\ rResult.success
              /\ rTried = <<1>>
              /\ rEngine = "improved" => rResult.selector_used = 1
        /\ \A j \in 1..Len(rTiers) : rTiers[j] = 1

\* C1 as amended: whenever the first locator matches a visible control on
\* which the requested action is verified, the call returns success
\* attributed to exactly that locator and has tried no later locator; the
\* call itself invokes no tier, and select_cliente_autonomous invokes a
\* later strategy only after the option selection that followed has failed.
C1_FirstLocatorShortCircuit ==
    FirstVerified =>
        /\ MainCallReturned =>
              /\ rResult.success
              /\ rTried = <<1>>
              /\ rEngine = "improved" =>
                    /\ rResult.selector_used = 1
                    /\ Len(rResult.attempts) = 1
                    /\ rResult.attempts[1].success
              /\ \A j \in 1..Len(rTiers) : rTiers[j] = 1
        /\ rCaller # "autonomous" => rTiers = <<>>
        /\ (\E j \in 1..Len(rTiers) : rTiers[j] > 1) =>
              /\ rMain.success
              /\ rCodelco # <<>>
              /\ ~rCodelco[1]

\* C1 witness: a two-locator list whose first locator succeeded; the second
\* was never tried.
C1_Witness ==
    /\ MainCallReturned
    /\ Len(rLocs) >= 2
    /\ FirstVerified
    /\ rResult.success
    /\ rTried = <<1>>

C13_Original ==
    (/\ MainCallReturned
     /\ rCaller = "direct"
     /\ rAction = "write"
     /\ rValue
     /\ NoEntryMatches
     /\ rVisibleInput)
        => rResult.success

\* C14: a write call reports success only for a control whose value, read
\* back after clear and send_keys, equals the value typed; a control whose
\* read-back differs is not reported as success, and the next locator of
\* the list is tried after it.
C14_ReadBackGuardsSuccess ==
    (MainCallReturned /\ rAction = "write") =>
        /\ rResult.success =>
              (rValue /\ Displayed(rLocs[rIdx]) /\ ReadBackEqual(rLocs[rIdx]))
        /\ \A n \in 1..Len(rTried) :
              LET i == rTried[n]
              IN (Displayed(rLocs[i]) /\ ~ReadBackEqual(rLocs[i])) =>
                    /\ ~(rResult.success /\ rIdx = i)
                    /\ rEngine = "improved" => ~rResult.attempts[n].success
                    /\ i < Len(rLocs) => (n < Len(rTried) /\ rTried[n + 1] = i + 1)

C14_Witness ==
    /\ MainCallReturned
    /\ rAction = "write"
    /\ rValue
    /\ rLocs = <<"masked_input", "ok_input">>
    /\ rResult.success
    /\ rIdx = 2
    /\ rTried = <<1, 2>>

\* how many of the first j strategies reported that the dropdown opened
OpenedUpTo(j) == Cardinality({i \in 1..j : rReports[i]})

\* C16 as stated: the strategies run in the order 1, 2, 3, 4; a strategy is
\* invoked only after every earlier one reported failure, so once a strategy
\* has reported success no later one is invoked.
C16_Original ==
    rCaller = "autonomous" =>
        /\ \A j \in 1..Len(rTiers) : rTiers[j] = j
        /\ \A j \in 1..Len(rReports) : j < Len(rTiers) => ~rReports[j]

\* C16: the strategies run in the order 1, 2, 3, 4; a strategy is invoked
\* only after every earlier one either reported failure or opened the
\* dropdown without select_cliente_codelco then selecting the option; once
\* a strategy has opened the dropdown and the option has been selected, the
\* function returns True and no later strategy is invoked.
C16_OrderAndShortCircuit ==
    rCaller = "autonomous" =>
        /\ Len(rTiers) <= 4
        /\ \A j \in 1..Len(rTiers) : rTiers[j] = j
        /\ Len(rReports) \in {Len(rTiers) - 1, Len(rTiers)}
        /\ Len(rCodelco) \in {OpenedUpTo(Len(rReports)) - 1, OpenedUpTo(Len(rReports))}
        /\ \A j \in 1..Len(rReports) :
              (j < Len(rTiers) /\ rReports[j]) =>
                  (OpenedUpTo(j) <= Len(rCodelco) /\ ~rCodelco[OpenedUpTo(j)])
        /\ \A n \in 1..Len(rCodelco) :
              rCodelco[n] =>
                  /\ n = Len(rCodelco)
                  /\ rPc = "done" /\ rOutcome = "true"
                  /\ Len(rReports) = Len(rTiers)
                  /\ rReports[Len(rReports)]
        /\ (rPc = "done" /\ rOutcome = "false") =>
              (Len(rTiers) = 4 /\ Len(rReports) = 4)

\* strategy 1 opened the dropdown, the option was not selected, strategy 2
\* failed, strategy 3 opened it and the option was selected after it
C16_Witness ==
    /\ rCaller = "autonomous"
    /\ rPc = "done" /\ rOutcome = "true"
    /\ rTiers = <<1, 2, 3>>
    /\ rReports = <<TRUE, FALSE, TRUE>>
    /\ rCodelco = <<FALSE, TRUE>>

\* C18: when a bare call of either resolver returns, it has taken exactly
\* two screenshots: one before the first locator attempt and one after the
\* last, whatever the action and the outcome.
C18_Original ==
    (MainCallReturned /\ rCaller = "direct") =>
        /\ Len(rShots) = 2
        /\ rShots[1] = "before"
        /\ rShots[2] = IF rResult.success THEN "after_success" ELSE "after_failed"

\* C26: a click call of the improved engine reports success only for a
\* control to which one of the interaction methods dispatched an activation;
\* a method that does nothing for the tag of the control is not counted.
C26_Original ==
    (rPc = "ret" /\ rEngine = "improved" /\ CallAction = "click" /\ rResult.success)
        => DispatchesActivation(SelectorsList[rResult.selector_used])

\* C30: during a call of robust_element_interaction_improved the attempt
\* list holds exactly one record per locator tried, in locator order; when
\* the call has returned, success is true exactly when the last record is
\* the only one marked successful, and then selector_used is the locator of
\* that record; on failure there is one record per configured locator,
\* selector_used is null and error is set.
C30_OneRecordPerLocator ==
    (rEngine = "improved" /\ rPc \in {"loop", "ret"}) =>
        /\ Len(rAttempts) = Len(rTried)
        /\ \A n \in 1..Len(rAttempts) :
              rTried[n] = n /\ rAttempts[n].selector = n /\ rAttempts[n].index = n
        /\ rPc = "ret" =>
              LET attempts == rResult.attempts
                  last == Len(attempts)
              IN /\ attempts = rAttempts
                 /\ rResult.success <=>
                       /\ last >= 1
                       /\ attempts[last].success
                       /\ \A n \in 1..(last - 1) : ~attempts[n].success
                 /\ rResult.success =>
                       /\ rResult.selector_used = attempts[last].selector
                       /\ ~rResult.error
                 /\ ~rResult.success =>
                       /\ last = Len(SelectorsList)
                       /\ rResult.selector_used = 0
                       /\ rResult.error

C30_Witness ==
    /\ rEngine = "improved"
    /\ rPc = "ret"
    /\ rTarget = "main"
    /\ rAction = "click"
    /\ rLocs = <<"hidden", "ok_button">>
    /\ rResult.success
    /\ rResult.selector_used = 2
    /\ Len(rResult.attempts) = 2
    /\ ~rResult.attempts[1].success
    /\ rResult.attempts[2].success

(***************************************************************************)
(* Claims about the batch orchestrator.                                    *)
(***************************************************************************)
Visited == 1..Len(bResults)

\* the failures process_single_licitacion_ultra_fast counts
Counted(i) == bResults[i].error \in {"No se pudo navegar", "exception"}

\* counted failures among the first n results since the last success
RECURSIVE CountedRun(_)
CountedRun(n) ==
    IF n = 0 THEN 0
    ELSE IF bResults[n].success THEN 0
    ELSE IF Counted(n) THEN CountedRun(n - 1) + 1
    ELSE CountedRun(n - 1)

\* the skip_threshold results before item i exist and are all failures
FailedJustBefore(i) ==
    /\ i > skip_threshold
    /\ \A j \in (i - skip_threshold)..(i - 1) : ~bResults[j].success

CounterAfter(i) == IF i < Len(bLog) THEN bLog[i + 1].before ELSE consecutive_errors

ExportWithoutFile(i) ==
    /\ bLog[i].item.link
    /\ bLog[i].before < skip_threshold
    /\ bLog[i].site.load = "ok"
    /\ bLog[i].site.login # "fail"
    /\ bLog[i].site.clicked
    /\ bLog[i].site.file = "none"
    /\ ~bLog[i].site.raises

C9_OneResultPerItem ==
    /\ bPc # "aborted"
    /\ Len(bResults) = bIdx - 1
    /\ Len(bLog) = Len(bResults)
    /\ procesadas = Len(bResults)
    /\ exitosas + errores = Len(bResults)
    /\ \A i \in Visited : bResults[i].index = i /\ bResults[i].link = bLog[i].item.link
    /\ (bPc = "loop" /\ bIdx <= total_licitaciones) => ENABLED ProcessItem
    /\ bPc = "done" => Len(bResults) = total_licitaciones

C9_Witness ==
    /\ bPc = "done"
    /\ \E i, j, k, l \in Visited :
          /\ i < j /\ j < k /\ k < l
          /\ bLog[i].item.link /\ bLog[i].site.raises /\ ~bResults[i].success
          /\ bLog[j].item.link /\ bLog[j].site.load = "timeout" /\ ~bResults[j].success
          /\ bLog[k].item.link /\ bLog[k].site.login = "fail" /\ ~bResults[k].success
          /\ bLog[l].item.link /\ bLog[l].site.file = "none" /\ bLog[l].before >= skip_threshold

\* C24: once the counter has reached skip_threshold it stays there or above
\* for the rest of the batch: no later item succeeds, a later item with a
\* link is failed as "not navigated" without a page load and adds one to the
\* counter, and a later item without a link leaves the counter as it is.
C24_LockedOutAfterThreshold ==
    \A i \in Visited :
        bLog[i].before >= skip_threshold =>
            /\ ~bResults[i].success
            /\ ~bLog[i].loaded
            /\ bLog[i].item.link =>
                  /\ bResults[i].error = "No se pudo navegar"
                  /\ CounterAfter(i) = bLog[i].before + 1
            /\ ~bLog[i].item.link => CounterAfter(i) = bLog[i].before
            /\ \A j \in Visited : j > i => bLog[j].before >= skip_threshold

\* three counted failures, then an item whose page would load is skipped
C24_Witness ==
    /\ Len(bResults) = skip_threshold + 1
    /\ bLog[skip_threshold + 1].before = skip_threshold
    /\ bLog[skip_threshold + 1].item.link
    /\ bLog[skip_threshold + 1].site.load = "ok"
    /\ bLog[skip_threshold + 1].site.login = "none"
    /\ consecutive_errors = skip_threshold + 1
    /\ bPc = "done"

(***************************************************************************)
(* Claims about the artifact wait.                                         *)
(***************************************************************************)
Timeout == WaitTimeout(wPolicy, wTimeoutSeconds)

Min(S) == CHOOSE x \in S : \A y \in S : x <= y

\* the complete files (no in-progress marker) that were new and of accepted
\* size at some time during the wait
Qualified == {p \in DOMAIN wCompleteAt : wCompleteAt[p] # Never}

\* those whose name the wait accepts as well
QualifiedByName == {p \in Qualified : Accepts(wPolicy, p.name, wFiles[p])}

FirstTime(S) == Min({wCompleteAt[p] : p \in S})

C5_Original ==
    (wPc = "returned" /\ Qualified = {})
        => /\ wResult = NoFile
           /\ wRetAt >= Timeout
           /\ wRetAt <= Timeout + PollInterval(wPolicy)

\* C6: neither wait returns a file whose extension is an in-progress
\* download marker.
C6_Original ==
    (wPc = "returned" /\ wResult # NoFile) => ~HasInProgressMarker(wResult.name)

\* C21: both waits apply the same qualification rule, so a file that one of
\* them returns is a file the rule of the other accepts too.
C21_Original ==
    (wPc = "returned" /\ wResult # NoFile) =>
        /\ Accepts("conservative", wResult.name, wFiles[wResult])
        /\ Accepts("ultra", wResult.name, wFiles[wResult])

\* C25: a qualifying file that the export produced between the export click
\* and the call of the wait does not go undetected: the wait, once it has
\* returned, has returned a file.
C25_Original ==
    (/\ wPc = "returned"
     /\ \E p \in wEarly : wFiles[p] # 0 /\ Accepts(wPolicy, p.name, wFiles[p]))
        => wResult # NoFile

(***************************************************************************)
(* Claims about the diff analyzer.                                         *)
(***************************************************************************)
\* C7: the analyses of (A, B) and of (B, A) report the same page_changed,
\* and the elements that appeared in one are the elements that disappeared
\* in the other.
C7_Original ==
    dPc = "done" =>
        /\ dForward.page_changed = dBackward.page_changed
        /\ Range(dForward.new_elements) = Range(dBackward.disappeared_elements)
        /\ Range(dBackward.new_elements) = Range(dForward.disappeared_elements)

\* the controls of `after` that analyze_element_differences counts as
\* appeared: buttons with a new outerHTML and the clickable divs beyond the
\* earlier count
Appeared(before, after) ==
    NewButtonHtmls(before, after) # {}
        \/ Len(after.all_clickable_divs) > Len(before.all_clickable_divs)

\* C15 as stated: likely_clicked_element is the first appeared control
\* whenever a control appeared, and null whenever none appeared.
C15_Original ==
    dPc \in {"forward", "done"} =>
        dForward.likely_clicked_element =
            IF Appeared(dA, dB) THEN <<dForward.new_elements[1]>> ELSE <<>>

\* C15: likely_clicked_element is the first appeared control when the page
\* hash changed and a control appeared; it is null when no control appeared
\* (whether the hash changed or not) and when the hash did not change.
C15_FirstAppearedIfChanged ==
    /\ dPc \in {"forward", "done"} =>
          /\ (dForward.new_elements # <<>>) = Appeared(dA, dB)
          /\ dForward.likely_clicked_element =
                IF dA.page_hash # dB.page_hash /\ Appeared(dA, dB)
                THEN <<dForward.new_elements[1]>> ELSE <<>>
    /\ dPc \in {"backward", "done"} =>
          /\ (dBackward.new_elements # <<>>) = Appeared(dB, dA)
          /\ dBackward.likely_clicked_element =
                IF dA.page_hash # dB.page_hash /\ Appeared(dB, dA)
                THEN <<dBackward.new_elements[1]>> ELSE <<>>

\* an unchanged hash with a new button: no inference
C15_Witness ==
    /\ dPc = "forward"
    /\ dA.page_hash = dB.page_hash
    /\ dA.page_hash # NoHash
    /\ Len(dForward.new_elements) = 1
    /\ dForward.new_elements[1].type = "button"
    /\ dForward.likely_clicked_element = <<>>

\* C29: for every step of the session whose analysis has a likely clicked
\* element, extract_successful_selectors yields a learned locator under the
\* name of that step.
C29_Original ==
    dPc = "extracted" =>
        \A i \in DOMAIN SessionSteps :
            HasLikelyClicked(SessionSteps[i]) =>
                \E pair \in dSuccessful : pair[1] = <<"learned", SessionSteps[i].name>>

(***************************************************************************)
(* Claims about the run functions.                                         *)
(***************************************************************************)
\* C10: whenever a run function has returned or propagated, a driver it
\* created has been quit.
C10_Original ==
    uExit # "running" => uDriver # "open"

\* the attempts of login_to_ariba made before the last one
EarlierAttempts == 1..(Len(uLoginLog) - 1)

StepsTaken == {uTrace[i][1] : i \in 1..Len(uTrace)}

\* C11: login_to_ariba makes at most max_attempts attempts, each with its
\* own navigation to the login address; an attempt is made only after every
\* earlier one failed; failure is reported only after max_attempts failed
\* attempts; after that failure run_complete_scraping and
\* run_complete_scraping_improved run no selection and no export step and
\* return None.
C11_BoundedLogin ==
    /\ Len(uLoginLog) <= max_attempts
    /\ uNavigations = Len(uLoginLog)
    /\ \A i \in EarlierAttempts :
          ~AttemptSucceeds(uLoginLog[i]) /\ uLoginLog[i].kind # "interrupt"
    /\ uLogin = "ok" => AttemptSucceeds(uLoginLog[Len(uLoginLog)])
    /\ uLogin = "failed" =>
          /\ Len(uLoginLog) = max_attempts
          /\ \A i \in 1..Len(uLoginLog) : ~AttemptSucceeds(uLoginLog[i])
          /\ StepsTaken \cap {"select", "input_cliente", "export", "input_export", "wait"} = {}
          /\ uResult = "None"
          /\ uFn \in CompleteRuns => uExit \in {"running", "returned"}
          /\ (uFn \in CompleteRuns /\ uExit = "returned") => uDriver = "quit"

C11_Witness ==
    /\ uFn = "run_complete_scraping_improved"
    /\ uLogin = "failed"
    /\ uExit = "returned"
    /\ uResult = "None"
    /\ uLoginLog[1].kind = "get_raises"
    /\ uLoginLog[2].kind = "no_password"
    /\ uLoginLog[3].kind = "submitted"

\* C12: when the scope selection of run_complete_scraping or
\* run_complete_scraping_improved reports failure, the export step is the
\* next step, with the same driver still open, and the function returns the
\* file exactly when the export produced one.
C12_SelectionFailureNotFatal ==
    \A i \in 1..Len(uTrace) :
        (uFn \in CompleteRuns /\ uTrace[i] = <<"select", "fail">>) =>
            /\ i = Len(uTrace) =>
                  (uPc = "export" /\ uExit = "running" /\ uDriver = "open" /\ uQuits = 0)
            /\ i < Len(uTrace) =>
                  /\ uTrace[i + 1][1] = "export"
                  /\ uExit = "returned" =>
                        uResult = (IF uTrace[i + 1][2] = "ok" THEN "file" ELSE "None")

C12_Witness ==
    /\ uFn = "run_complete_scraping"
    /\ uExit = "returned"
    /\ uResult = "file"
    /\ \E i \in 1..(Len(uTrace) - 1) :
          uTrace[i] = <<"select", "fail">> /\ uTrace[i + 1] = <<"export", "ok">>

\* C20: an attempt of login_to_ariba is reported successful only when the
\* address of the page after the submit contains neither "login" nor
\* "signin".
C20_Original ==
    uLogin = "ok" =>
        LET page == uLoginLog[Len(uLoginLog)].page
        IN "login" \notin page.url /\ "signin" \notin page.url

\* C27: in run_complete_scraping, run_complete_scraping_improved and
\* test_connection, quit is called at most once on the driver, also when a
\* step raises inside the inner try.
C27_Original ==
    uFn \in CompleteRuns \cup {"test_connection"} => uQuits <= 1

(***************************************************************************)
(* Claims about the scheduler.                                             *)
(***************************************************************************)
\* C17: at any time at most one thread is inside execute_task and at most
\* one thread running scheduler_loop is alive.
C17_Original ==
    /\ Cardinality(Executing) <= 1
    /\ Cardinality({t \in ThreadIds : Alive(t)}) <= 1

(***************************************************************************)
(* Claims about the navigation to one item.                                *)
(***************************************************************************)
\* the first call of detect_login_page, on the page just loaded, reported a
\* signal
SignalAtLoad == nDetects # <<>> /\ nDetects[1].signal

\* C19: handle_login is called exactly when detect_login_page reports a
\* signal on the loaded page; without a signal no attempt is made and
\* navigate_ultra_fast returns True; with a signal it returns True only
\* when handle_login, within max_login_attempts attempts, has submitted the
\* form and its last re-check reported no signal on the page then shown.
C19_LoginOnlyOnSignal ==
    /\ \A i \in 1..Len(nDetects) :
          nDetects[i].signal =
              (~nDetects[i].page.broken
                  /\ (nDetects[i].page.url_login \/ nDetects[i].page.indicator))
    /\ (nHandle # "none") = SignalAtLoad
    /\ nAttempt <= max_login_attempts
    /\ ~SignalAtLoad => (nAttempt = 0 /\ nSubmits = 0)
    /\ (nDetects # <<>> /\ ~SignalAtLoad) => (nPc = "done" /\ nResult = "True")
    /\ (SignalAtLoad /\ nResult = "True") =>
          /\ nHandle = "True"
          /\ nCredentials
          /\ nSubmits >= 1
          /\ Len(nDetects) = nSubmits + 1
          /\ ~nDetects[Len(nDetects)].signal
          /\ nDetects[Len(nDetects)].page = nPage
          /\ \A i \in 1..(Len(nDetects) - 1) : nDetects[i].signal
    /\ (SignalAtLoad /\ nResult = "False" /\ nCredentials) =>
          (nAttempt = max_login_attempts /\ \A i \in 1..Len(nDetects) : nDetects[i].signal)

\* a signal at the load, a first attempt that ends on a login page and a
\* second one whose re-check finds none
C19_Witness ==
    /\ nResult = "True"
    /\ SignalAtLoad
    /\ nAttempt = 2
    /\ Len(nDetects) = 3
    /\ nDetects[2].signal
    /\ ~nDetects[3].signal
    /\ ~nDetects[3].page.broken

(***************************************************************************)
(* Claims about the heuristic strategies.                                  *)
(***************************************************************************)
\* C22: strategy 4 gives every element the score strategy 2 gives an
\* element of the same class, text and markup, and so the same elements
\* reach the threshold of 3.
C22_Original ==
    (hStrategy = 4 /\ hPc \in {"try", "done"}) =>
        \A i \in DOMAIN hScores :
            /\ hScores[i] = ScoreIntelligent(hPage[i])
            /\ (hScores[i] >= 3) = (ScoreIntelligent(hPage[i]) >= 3)

\* C23: after a click of strategy 3, success is declared exactly when the
\* address changed, the page length changed by more than 1000 or the
\* corporation text is displayed; at most max_elements elements are tried.
C23_Original ==
    (hStrategy = 3 /\ hIdx >= 1 /\ ~hEffect.raises) =>
        /\ (hResult = "True") = (hEffect.url \/ hEffect.length \/ hEffect.keyword)
        /\ hIdx <= max_elements

\* C28: when strategy 2 has a candidate among its best three that is
\* displayed, enabled and opens the menu when clicked, it returns True.
C28_Original ==
    (hStrategy = 2 /\ hPc = "done") =>
        ((\E n \in DOMAIN TopCandidates(hScores, 3) :
             LET el == hPage[TopCandidates(hScores, 3)[n]]
             IN el.displayed /\ el.enabled /\ el.opens)
            => hResult = "True")

=============================================================================
